---------------------------- MODULE Spec2Model ----------------------------
(***************************************************************************)
(* A model of the EngineUtilities numeric library (scalar math, vectors,   *)
(* matrices, quaternion).  Every operation of the library is a pure        *)
(* computation over C++ `float`; the model computes with IEEE-754 binary32 *)
(* values (round-to-nearest-even, subnormals, infinities, NaN) so that an  *)
(* operator here returns exactly the value the compiled code returns.      *)
(***************************************************************************)
EXTENDS Integers, Sequences, FiniteSets, TLC

(***************************************************************************)
(* float: a binary32 value is (-1)^s * m * 2^e with 0 <= m < 2^24 and      *)
(* -149 <= e <= 104; e = 105 encodes infinity (m = 0) and NaN (m # 0).     *)
(* A finite non-zero value is kept canonical: m >= 2^23, or e = -149.      *)
(***************************************************************************)
MantBits == 24
ExpMin == -149
ExpMax == 104

Pow2(n) == 2 ^ n
Hidden == Pow2(MantBits - 1)
MantLim == Pow2(MantBits)

Fin(s, m, e) == [s |-> s, m |-> m, e |-> e]
Zero(s) == Fin(s, 0, ExpMin)
Inf(s) == Fin(s, 0, ExpMax + 1)
NaN == Fin(0, 1, ExpMax + 1)

IsNaN(x) == x.e = ExpMax + 1 /\ x.m # 0
IsInf(x) == x.e = ExpMax + 1 /\ x.m = 0
IsFinite(x) == x.e <= ExpMax
IsZero(x) == x.e <= ExpMax /\ x.m = 0

\* The number of bits of n (0 <= n < 2^31).
RECURSIVE BitLenSmall(_)
BitLenSmall(n) == IF n = 0 THEN 0 ELSE 1 + BitLenSmall(n \div 2)

BitLen(n) ==
    IF n >= 1073741824 THEN 31
    ELSE IF n >= 536870912 THEN 30
    ELSE IF n >= 268435456 THEN 29
    ELSE IF n >= 16777216 THEN 24 + BitLenSmall(n \div 16777216)
    ELSE IF n >= 8388608 THEN 24
    ELSE IF n >= 4096 THEN 12 + BitLenSmall(n \div 4096)
    ELSE BitLenSmall(n)

\* The canonical float nearest to M * 2^e (M < 2^31), ties to even; st = 1 says
\* that the exact value lies strictly between M * 2^e and (M + 1) * 2^e.
Pack(s, m, e) ==
    IF m = MantLim
    THEN (IF e + 1 > ExpMax THEN Inf(s) ELSE Fin(s, Hidden, e + 1))
    ELSE (IF e > ExpMax THEN Inf(s) ELSE Fin(s, m, e))

RoundHalf(s, st, te, half, q, r) ==
    Pack(s, IF r > half \/ (r = half /\ (st = 1 \/ q % 2 = 1)) THEN q + 1 ELSE q,
         te)

RoundShift(s, M, st, te, sh) ==
    RoundHalf(s, st, te, Pow2(sh - 1),
              IF sh = 31 THEN 0 ELSE M \div Pow2(sh),
              IF sh = 31 THEN M ELSE M % Pow2(sh))

RoundAt(s, M, e, st, te) ==
    IF te <= e THEN Pack(s, M * Pow2(e - te), te)
    ELSE IF te - e > 31 THEN Zero(s)
    ELSE RoundShift(s, M, st, te, te - e)

TargetExp(e) == IF e < ExpMin THEN ExpMin ELSE e

RoundPack(s, M, e, st) ==
    IF M = 0 THEN Zero(s)
    ELSE RoundAt(s, M, e, st, TargetExp(e + BitLen(M) - MantBits))

\* A finite non-zero float with its significand shifted up to 24 bits.
NormShift(x, sh) == [m |-> x.m * Pow2(sh), e |-> x.e - sh]
Norm(x) ==
    IF x.m >= Hidden THEN [m |-> x.m, e |-> x.e]
    ELSE NormShift(x, MantBits - BitLen(x.m))

FNeg(x) == IF IsNaN(x) THEN x ELSE Fin(1 - x.s, x.m, x.e)

\* a * b: the 48-bit product of the significands from their 12-bit halves.
FMulRound(s, e, hi, lo) ==
    RoundPack(s, hi * 64 + lo \div 262144, e, IF lo % 262144 # 0 THEN 1 ELSE 0)
FMulHiLo(s, e, h, t) == FMulRound(s, e, h + t \div MantLim, t % MantLim)
FMulSum(s, e, hh, c, ll) ==
    FMulHiLo(s, e, hh + c \div 4096, (c % 4096) * 4096 + ll)
FMulParts(s, e, ah, al, bh, bl) ==
    FMulSum(s, e, ah * bh, ah * bl + al * bh, al * bl)
FMulNorm(s, na, nb) ==
    FMulParts(s, na.e + nb.e + 18, na.m \div 4096, na.m % 4096,
              nb.m \div 4096, nb.m % 4096)
FMul(a, b) ==
    IF IsNaN(a) \/ IsNaN(b) THEN NaN
    ELSE IF IsInf(a) \/ IsInf(b)
         THEN (IF IsZero(a) \/ IsZero(b) THEN NaN ELSE Inf((a.s + b.s) % 2))
    ELSE IF a.m = 0 \/ b.m = 0 THEN Zero((a.s + b.s) % 2)
    ELSE FMulNorm((a.s + b.s) % 2, Norm(a), Norm(b))

\* a + b: the smaller operand aligned to the larger with 6 guard bits.
FAddSum(sg, so, e, Mb, Ms, st) ==
    IF sg = so THEN RoundPack(sg, Mb + Ms, e, st)
    ELSE IF Mb - Ms - st = 0 /\ st = 0 THEN Zero(0)
    ELSE RoundPack(sg, Mb - Ms - st, e, st)
FAddAligned(sg, so, e, Mb, Ms64, d) ==
    FAddSum(sg, so, e, Mb,
            IF d > 30 THEN 0 ELSE Ms64 \div Pow2(d),
            IF d > 30 THEN 1 ELSE IF Ms64 % Pow2(d) # 0 THEN 1 ELSE 0)
FAddOrdered(sg, so, big, sml) ==
    FAddAligned(sg, so, big.e - 6, big.m * 64, sml.m * 64, big.e - sml.e)
FAddNorm(sa, sb, na, nb) ==
    IF na.e > nb.e \/ (na.e = nb.e /\ na.m >= nb.m)
    THEN FAddOrdered(sa, sb, na, nb)
    ELSE FAddOrdered(sb, sa, nb, na)
FAdd(a, b) ==
    IF IsNaN(a) \/ IsNaN(b) THEN NaN
    ELSE IF IsInf(a) THEN (IF IsInf(b) /\ a.s # b.s THEN NaN ELSE a)
    ELSE IF IsInf(b) THEN b
    ELSE IF a.m = 0 /\ b.m = 0 THEN Zero(IF a.s = 1 /\ b.s = 1 THEN 1 ELSE 0)
    ELSE IF a.m = 0 THEN b
    ELSE IF b.m = 0 THEN a
    ELSE FAddNorm(a.s, b.s, Norm(a), Norm(b))

FSub(a, b) == FAdd(a, FNeg(b))

\* a / b: long division, 6 quotient bits a step, 30 fraction bits in all.
RECURSIVE FDivStep(_, _, _, _, _, _)
FDivStep(s, e, d, q, r, n) ==
    IF n = 0 THEN RoundPack(s, q, e, IF r # 0 THEN 1 ELSE 0)
    ELSE FDivStep(s, e, d, q * 64 + (r * 64) \div d, (r * 64) % d, n - 1)
FDivNorm(s, na, nb) ==
    FDivStep(s, na.e - nb.e - 30, nb.m, na.m \div nb.m, na.m % nb.m, 5)
FDiv(a, b) ==
    IF IsNaN(a) \/ IsNaN(b) THEN NaN
    ELSE IF IsInf(a) THEN (IF IsInf(b) THEN NaN ELSE Inf((a.s + b.s) % 2))
    ELSE IF IsInf(b) THEN Zero((a.s + b.s) % 2)
    ELSE IF b.m = 0 THEN (IF a.m = 0 THEN NaN ELSE Inf((a.s + b.s) % 2))
    ELSE IF a.m = 0 THEN Zero((a.s + b.s) % 2)
    ELSE FDivNorm((a.s + b.s) % 2, Norm(a), Norm(b))

\* Comparisons (every comparison with a NaN is false, -0 equals +0).
MagLt(a, b) == a.e < b.e \/ (a.e = b.e /\ a.m < b.m)
FLt(a, b) ==
    /\ ~IsNaN(a)
    /\ ~IsNaN(b)
    /\ ~(IsZero(a) /\ IsZero(b))
    /\ IF a.s # b.s THEN a.s = 1
       ELSE IF a.s = 0 THEN MagLt(a, b) ELSE MagLt(b, a)
FGt(a, b) == FLt(b, a)
FEq(a, b) == ~IsNaN(a) /\ ~IsNaN(b) /\ ((IsZero(a) /\ IsZero(b)) \/ a = b)
FNe(a, b) == ~FEq(a, b)
FLe(a, b) == FLt(a, b) \/ FEq(a, b)

\* An int converted to float, and the literals of the source.
F(n) == RoundPack(IF n < 0 THEN 1 ELSE 0, IF n < 0 THEN -n ELSE n, 0, 0)
F0 == Zero(0)
F1 == F(1)
FHalf == Fin(0, Hidden, -MantBits)

FTwo == F(2)
FAbs(x) == IF IsNaN(x) THEN x ELSE Fin(0, x.m, x.e)

\* std::sqrt: the correctly rounded square root, by the digit recurrence on
\* the 27 pairs of bits of n * 2^28 (n the significand made 25 or 26 bits wide).
RECURSIVE SqrtDigits(_, _, _, _, _)
RECURSIVE SqrtDigit(_, _, _, _, _)
SqrtDigits(e, n, pairs, root, rem) ==
    IF pairs = 0 THEN RoundPack(0, root, e, IF rem # 0 THEN 1 ELSE 0)
    ELSE SqrtDigit(e, n, pairs, root,
                   rem * 4 + (IF pairs > 14
                              THEN (n \div Pow2(2 * (pairs - 15))) % 4 ELSE 0))
SqrtDigit(e, n, pairs, root, cur) ==
    IF cur >= 4 * root + 1
    THEN SqrtDigits(e, n, pairs - 1, 2 * root + 1, cur - (4 * root + 1))
    ELSE SqrtDigits(e, n, pairs - 1, 2 * root, cur)
SqrtNorm(nx) ==
    IF nx.e % 2 # 0
    THEN SqrtDigits((nx.e - 29) \div 2, nx.m * 2, 27, 0, 0)
    ELSE SqrtDigits((nx.e - 28) \div 2, nx.m, 27, 0, 0)
std_sqrt(x) ==
    IF IsNaN(x) THEN NaN
    ELSE IF x.m = 0 /\ x.e <= ExpMax THEN x
    ELSE IF x.s = 1 THEN NaN
    ELSE IF IsInf(x) THEN x
    ELSE SqrtNorm(Norm(x))

(***************************************************************************)
(* EU::Math (EngineMath.h)                                                 *)
(***************************************************************************)
SqrtIterations == 10

RECURSIVE NewtonRaphson(_, _, _)
NewtonRaphson(x, guess, i) ==
    IF i >= SqrtIterations THEN guess
    ELSE NewtonRaphson(x, FMul(FHalf, FAdd(guess, FDiv(x, guess))), i + 1)

Math_sqrt(x) ==
    IF FLe(x, F0) THEN F0 ELSE NewtonRaphson(x, FDiv(x, FTwo), 0)

\* static_cast<int>(x), defined for |x| < 2^31: the integer part, the
\* fraction dropped.
IntMagnitude(x) ==
    IF x.e >= 0 THEN x.m * Pow2(x.e)
    ELSE IF 0 - x.e >= MantBits THEN 0
    ELSE x.m \div Pow2(0 - x.e)
InIntRange(x) == IsFinite(x) /\ (x.m = 0 \/ x.e + BitLen(x.m) <= 31)
static_cast_int(x) == IF x.s = 1 THEN 0 - IntMagnitude(x) ELSE IntMagnitude(x)
\* INT_MIN, INT_MAX, and -2^31 as a float: the one float of magnitude 2^31
\* that converts.
INT_MAX == 2147483647
INT_MIN == 0 - INT_MAX - 1
FIntMin == Fin(1, Hidden, 8)
Converts(x) == InIntRange(x) \/ x = FIntMin
\* static_cast<int>(x) where it is defined; elsewhere the conversion is
\* undefined behaviour and CastChoices lists values a build can produce.
CastToInt(x) == IF x = FIntMin THEN INT_MIN ELSE static_cast_int(x)
CastChoices(x) == IF Converts(x) THEN {CastToInt(x)} ELSE {INT_MIN, 0, INT_MAX}
\* static_cast<float>(i), and the int operand of a float comparison.
CastToFloat(i) == IF i = INT_MIN THEN FIntMin ELSE F(i)

\* round casts x + 0.5f or x - 0.5f.
Math_roundArg(x) == IF FLe(F0, x) THEN FAdd(x, FHalf) ELSE FSub(x, FHalf)
\* A faulty variant: the truncation alone.
Math_round_truncating(x) == CastToInt(x)
Math_round(x) == CastToInt(Math_roundArg(x))
\* floor and ceil, i being static_cast<int>(x).
Math_floorOf(x, i) == IF FLt(x, F0) /\ FNe(x, CastToFloat(i)) THEN i - 1 ELSE i
Math_ceilOf(x, i) == IF FGt(x, F0) /\ FNe(x, CastToFloat(i)) THEN i + 1 ELSE i
Math_floor(x) == Math_floorOf(x, CastToInt(x))
Math_ceil(x) == Math_ceilOf(x, CastToInt(x))

\* One pass through the body of sqrt's loop.
Math_sqrtStep(x, guess) == NewtonRaphson(x, guess, SqrtIterations - 1)

RECURSIVE Math_powerLoop(_, _, _, _)
Math_powerLoop(x, n, result, i) ==
    IF i < n THEN Math_powerLoop(x, n, FMul(result, x), i + 1) ELSE result
Math_power(x, n) == Math_powerLoop(x, n, F1, 0)

\* log: the series 2 * (y + y^3/3 + ... + y^9/9), y = (x - 1) / (x + 1).
Math_logTerm(y, i) == FMul(FDiv(F1, F(i)), Math_power(y, i))
RECURSIVE Math_logLoop(_, _, _)
Math_logLoop(y, result, i) ==
    IF i < 10 THEN Math_logLoop(y, FAdd(result, Math_logTerm(y, i)), i + 2)
    ELSE result
Math_logSeries(y) == FMul(FTwo, Math_logLoop(y, F0, 1))
\* A faulty variant: no test of x <= 0.
Math_log_unguarded(x) == Math_logSeries(FDiv(FSub(x, F1), FAdd(x, F1)))
Math_log(x) ==
    IF FLe(x, F0) THEN F0
    ELSE Math_logSeries(FDiv(FSub(x, F1), FAdd(x, F1)))
\* The literal 2.3025851f.
Math_LN10 == Fin(0, 9657742, 0 - 22)
Math_log10(x) == FDiv(Math_log(x), Math_LN10)

\* The literal 3.14159265f, and 2.0f * 3.14159265f.
Math_PI == Fin(0, 13176795, 0 - 22)
Math_TwoPI == FMul(FTwo, Math_PI)

\* The two range-reduction loops of sin and cos, one iteration at a time.
Math_mustReduceDown(x) == FGt(x, Math_PI)
Math_mustReduceUp(x) == FLt(x, FNeg(Math_PI))
Math_reduceDownStep(x) == FSub(x, Math_TwoPI)
Math_reduceUpStep(x) == FAdd(x, Math_TwoPI)

RECURSIVE Math_reduceDown(_)
Math_reduceDown(x) ==
    IF Math_mustReduceDown(x) THEN Math_reduceDown(Math_reduceDownStep(x)) ELSE x
RECURSIVE Math_reduceUp(_)
Math_reduceUp(x) ==
    IF Math_mustReduceUp(x) THEN Math_reduceUp(Math_reduceUpStep(x)) ELSE x
Math_reduce(x) == Math_reduceUp(Math_reduceDown(x))

\* The Taylor polynomials, x2 being x * x.
Math_sinPoly(x, x2) ==
    FSub(FAdd(FSub(x, FDiv(FMul(x2, x), F(6))),
              FDiv(FMul(FMul(x2, x2), x), F(120))),
         FDiv(FMul(FMul(FMul(x2, x2), x2), x), F(5040)))
Math_cosPoly(x2) ==
    FSub(FAdd(FSub(F1, FDiv(x2, FTwo)), FDiv(FMul(x2, x2), F(24))),
         FDiv(FMul(FMul(x2, x2), x2), F(720)))
Math_sinReduced(x) == Math_sinPoly(x, FMul(x, x))
Math_cosReduced(x) == Math_cosPoly(FMul(x, x))

Math_sin(x) == Math_sinReduced(Math_reduce(x))
Math_cos(x) == Math_cosReduced(Math_reduce(x))

(***************************************************************************)
(* CVector3 and CVector4 (Vector4.h), EngineUtilities::Vector3 (Vector3.h) *)
(***************************************************************************)
CVector3(x, y, z) == [x |-> x, y |-> y, z |-> z]

CVector3_length(v) ==
    Math_sqrt(FAdd(FAdd(FMul(v.x, v.x), FMul(v.y, v.y)), FMul(v.z, v.z)))

CVector3_lengthSquared(v) ==
    FAdd(FAdd(FMul(v.x, v.x), FMul(v.y, v.y)), FMul(v.z, v.z))

CVector3_normalized(v) ==
    LET len == CVector3_length(v)
    IN  IF FEq(len, F0) THEN CVector3(F0, F0, F0)
        ELSE CVector3(FDiv(v.x, len), FDiv(v.y, len), FDiv(v.z, len))

\* The receiver after normalize().
CVector3_normalize(v) ==
    LET len == CVector3_length(v)
    IN  IF FNe(len, F0)
        THEN CVector3(FDiv(v.x, len), FDiv(v.y, len), FDiv(v.z, len))
        ELSE v

CVector3_eq(a, b) == FEq(a.x, b.x) /\ FEq(a.y, b.y) /\ FEq(a.z, b.z)

\* operator[]: the member the returned reference is bound to.
\* A faulty variant: a negative index selects x.
CVector3_indexRef_lowToFirst(index) ==
    IF index <= 0 THEN "x" ELSE IF index = 1 THEN "y" ELSE "z"
CVector3_indexRef(index) ==
    IF index = 0 THEN "x" ELSE IF index = 1 THEN "y" ELSE "z"
CVector3_index(v, index) == v[CVector3_indexRef(index)]

CVector3_add(v, other) ==
    CVector3(FAdd(v.x, other.x), FAdd(v.y, other.y), FAdd(v.z, other.z))
CVector3_sub(v, other) ==
    CVector3(FSub(v.x, other.x), FSub(v.y, other.y), FSub(v.z, other.z))
CVector3_mulScalar(v, scalar) ==
    CVector3(FMul(v.x, scalar), FMul(v.y, scalar), FMul(v.z, scalar))

CVector3_divScalar(v, divisor) ==
    CVector3(FDiv(v.x, divisor), FDiv(v.y, divisor), FDiv(v.z, divisor))

\* The operand `other` of a compound assignment is a reference: This when
\* it is the receiver itself, else an object apart.  One statement
\* `f op= other.f` reads other.f as it is when the statement runs.
This == [alias |-> "this"]
Deref(v, other) == IF other = This THEN v ELSE other
AssignMember(v, other, f, Op(_, _)) ==
    [v EXCEPT ![f] = Op(v[f], Deref(v, other)[f])]
\* One statement `f op= scalar`, the scalar passed by value.
AssignScaled(v, scalar, f, Op(_, _)) == [v EXCEPT ![f] = Op(v[f], scalar)]

\* A faulty variant: y += other.x.
CVector3_addAssign_wrongMember(v, other) ==
    [AssignMember(AssignMember(v, other, "x", FAdd), other, "z", FAdd)
        EXCEPT !.y = FAdd(v.y, Deref(v, other).x)]

CVector3_addAssign(v, other) ==
    AssignMember(AssignMember(AssignMember(v, other, "x", FAdd),
                              other, "y", FAdd), other, "z", FAdd)
CVector3_subAssign(v, other) ==
    AssignMember(AssignMember(AssignMember(v, other, "x", FSub),
                              other, "y", FSub), other, "z", FSub)
CVector3_mulAssign(v, scalar) ==
    AssignScaled(AssignScaled(AssignScaled(v, scalar, "x", FMul),
                              scalar, "y", FMul), scalar, "z", FMul)
CVector3_divAssign(v, scalar) ==
    AssignScaled(AssignScaled(AssignScaled(v, scalar, "x", FDiv),
                              scalar, "y", FDiv), scalar, "z", FDiv)

\* if (t < 0.f) t = 0.f; if (t > 1.f) t = 1.f;
LerpClampHigh(t) == IF FGt(t, F1) THEN F1 ELSE t
LerpClamp(t) == LerpClampHigh(IF FLt(t, F0) THEN F0 ELSE t)
CVector3_blend(a, b, t) == CVector3_add(a, CVector3_mulScalar(CVector3_sub(b, a), t))
\* A faulty variant: t is used as it is passed.
CVector3_lerp_unclamped(a, b, t) == CVector3_blend(a, b, t)
CVector3_lerp(a, b, t) == CVector3_blend(a, b, LerpClamp(t))

\* A faulty variant: the second component has its two terms exchanged.
CVector3_cross_wrongY(v, other) ==
    CVector3(FSub(FMul(v.y, other.z), FMul(v.z, other.y)),
             FSub(FMul(v.x, other.z), FMul(v.z, other.x)),
             FSub(FMul(v.x, other.y), FMul(v.y, other.x)))
CVector3_cross(v, other) ==
    CVector3(FSub(FMul(v.y, other.z), FMul(v.z, other.y)),
             FSub(FMul(v.z, other.x), FMul(v.x, other.z)),
             FSub(FMul(v.x, other.y), FMul(v.y, other.x)))

CVector4(x, y, z, w) == [x |-> x, y |-> y, z |-> z, w |-> w]

CVector4_length(v) ==
    Math_sqrt(FAdd(FAdd(FAdd(FMul(v.x, v.x), FMul(v.y, v.y)), FMul(v.z, v.z)),
                   FMul(v.w, v.w)))

CVector4_normalized(v) ==
    LET len == CVector4_length(v)
    IN  IF FEq(len, F0) THEN CVector4(F0, F0, F0, F0)
        ELSE CVector4(FDiv(v.x, len), FDiv(v.y, len), FDiv(v.z, len),
                      FDiv(v.w, len))

CVector4_normalize(v) ==
    LET len == CVector4_length(v)
    IN  IF FNe(len, F0)
        THEN CVector4(FDiv(v.x, len), FDiv(v.y, len), FDiv(v.z, len),
                      FDiv(v.w, len))
        ELSE v

CVector4_eq(a, b) ==
    FEq(a.x, b.x) /\ FEq(a.y, b.y) /\ FEq(a.z, b.z) /\ FEq(a.w, b.w)

CVector4_indexRef(index) ==
    IF index = 0 THEN "x" ELSE IF index = 1 THEN "y"
    ELSE IF index = 2 THEN "z" ELSE "w"
CVector4_index(v, index) == v[CVector4_indexRef(index)]

CVector4_add(v, other) ==
    CVector4(FAdd(v.x, other.x), FAdd(v.y, other.y), FAdd(v.z, other.z),
             FAdd(v.w, other.w))
CVector4_sub(v, other) ==
    CVector4(FSub(v.x, other.x), FSub(v.y, other.y), FSub(v.z, other.z),
             FSub(v.w, other.w))
CVector4_mulScalar(v, scalar) ==
    CVector4(FMul(v.x, scalar), FMul(v.y, scalar), FMul(v.z, scalar),
             FMul(v.w, scalar))
CVector4_divScalar(v, divisor) ==
    CVector4(FDiv(v.x, divisor), FDiv(v.y, divisor), FDiv(v.z, divisor),
             FDiv(v.w, divisor))
CVector4_addAssign(v, other) ==
    AssignMember(AssignMember(AssignMember(AssignMember(v, other, "x", FAdd),
        other, "y", FAdd), other, "z", FAdd), other, "w", FAdd)
CVector4_subAssign(v, other) ==
    AssignMember(AssignMember(AssignMember(AssignMember(v, other, "x", FSub),
        other, "y", FSub), other, "z", FSub), other, "w", FSub)
CVector4_mulAssign(v, scalar) ==
    AssignScaled(AssignScaled(AssignScaled(AssignScaled(v, scalar, "x", FMul),
        scalar, "y", FMul), scalar, "z", FMul), scalar, "w", FMul)
CVector4_divAssign(v, scalar) ==
    AssignScaled(AssignScaled(AssignScaled(AssignScaled(v, scalar, "x", FDiv),
        scalar, "y", FDiv), scalar, "z", FDiv), scalar, "w", FDiv)
CVector4_blend(a, b, t) == CVector4_add(a, CVector4_mulScalar(CVector4_sub(b, a), t))
CVector4_lerp(a, b, t) == CVector4_blend(a, b, LerpClamp(t))

Vector3_magnitude(v) ==
    std_sqrt(FAdd(FAdd(FMul(v.x, v.x), FMul(v.y, v.y)), FMul(v.z, v.z)))

Vector3_cross(v, other) ==
    CVector3(FSub(FMul(v.y, other.z), FMul(v.z, other.y)),
             FSub(FMul(v.z, other.x), FMul(v.x, other.z)),
             FSub(FMul(v.x, other.y), FMul(v.y, other.x)))

Vector3_normalized(v) ==
    LET mag == Vector3_magnitude(v)
    IN  IF FGt(mag, F0)
        THEN CVector3(FDiv(v.x, mag), FDiv(v.y, mag), FDiv(v.z, mag))
        ELSE CVector3(F0, F0, F0)

(***************************************************************************)
(* EU::Quaternion (Quaternion.h)                                           *)
(***************************************************************************)
Quaternion(x, y, z, w) == [x |-> x, y |-> y, z |-> z, w |-> w]

Quaternion_identity == Quaternion(F0, F0, F0, F1)

\* A faulty variant: the last term of x has the wrong sign.
Quaternion_mul_wrongSign(q, o) ==
    Quaternion(
        FAdd(FAdd(FAdd(FMul(q.w, o.x), FMul(q.x, o.w)), FMul(q.y, o.z)),
             FMul(q.z, o.y)),
        FAdd(FAdd(FSub(FMul(q.w, o.y), FMul(q.x, o.z)), FMul(q.y, o.w)),
             FMul(q.z, o.x)),
        FAdd(FSub(FAdd(FMul(q.w, o.z), FMul(q.x, o.y)), FMul(q.y, o.x)),
             FMul(q.z, o.w)),
        FSub(FSub(FSub(FMul(q.w, o.w), FMul(q.x, o.x)), FMul(q.y, o.y)),
             FMul(q.z, o.z)))

\* A faulty variant: the real part adds the products of the vector parts.
Quaternion_mul_realPartAdded(q, o) ==
    Quaternion(
        FSub(FAdd(FAdd(FMul(q.w, o.x), FMul(q.x, o.w)), FMul(q.y, o.z)),
             FMul(q.z, o.y)),
        FAdd(FAdd(FSub(FMul(q.w, o.y), FMul(q.x, o.z)), FMul(q.y, o.w)),
             FMul(q.z, o.x)),
        FAdd(FSub(FAdd(FMul(q.w, o.z), FMul(q.x, o.y)), FMul(q.y, o.x)),
             FMul(q.z, o.w)),
        FAdd(FAdd(FAdd(FMul(q.w, o.w), FMul(q.x, o.x)), FMul(q.y, o.y)),
             FMul(q.z, o.z)))

Quaternion_mul(q, o) ==
    Quaternion(
        FSub(FAdd(FAdd(FMul(q.w, o.x), FMul(q.x, o.w)), FMul(q.y, o.z)),
             FMul(q.z, o.y)),
        FAdd(FAdd(FSub(FMul(q.w, o.y), FMul(q.x, o.z)), FMul(q.y, o.w)),
             FMul(q.z, o.x)),
        FAdd(FSub(FAdd(FMul(q.w, o.z), FMul(q.x, o.y)), FMul(q.y, o.x)),
             FMul(q.z, o.w)),
        FSub(FSub(FSub(FMul(q.w, o.w), FMul(q.x, o.x)), FMul(q.y, o.y)),
             FMul(q.z, o.z)))

Quaternion_eq(a, b) ==
    FEq(a.x, b.x) /\ FEq(a.y, b.y) /\ FEq(a.z, b.z) /\ FEq(a.w, b.w)

Quaternion_lenSq(q) ==
    FAdd(FAdd(FAdd(FMul(q.x, q.x), FMul(q.y, q.y)), FMul(q.z, q.z)),
         FMul(q.w, q.w))

Quaternion_length(q) == Math_sqrt(Quaternion_lenSq(q))

\* The receiver after normalize().
Quaternion_normalize(q) ==
    LET len == Quaternion_length(q)
    IN  IF FEq(len, F0) THEN q
        ELSE Quaternion(FDiv(q.x, len), FDiv(q.y, len), FDiv(q.z, len),
                        FDiv(q.w, len))

\* A faulty variant: a quaternion of length 0 is returned as it is.
Quaternion_normalized_keepsZero(q) ==
    IF FEq(Quaternion_length(q), F0) THEN q
    ELSE Quaternion(FDiv(q.x, Quaternion_length(q)), FDiv(q.y, Quaternion_length(q)),
                    FDiv(q.z, Quaternion_length(q)), FDiv(q.w, Quaternion_length(q)))

Quaternion_normalized(q) ==
    LET len == Quaternion_length(q)
    IN  IF FEq(len, F0) THEN Quaternion(F0, F0, F0, F1)
        ELSE Quaternion(FDiv(q.x, len), FDiv(q.y, len), FDiv(q.z, len),
                        FDiv(q.w, len))

\* A faulty variant: the conjugate, not divided by the squared length.
Quaternion_inverse_conjugateOnly(q) ==
    IF FEq(Quaternion_lenSq(q), F0) THEN Quaternion_identity
    ELSE Quaternion(FNeg(q.x), FNeg(q.y), FNeg(q.z), q.w)

Quaternion_inverse(q) ==
    LET lenSq == Quaternion_lenSq(q)
    IN  IF FEq(lenSq, F0) THEN Quaternion_identity
        ELSE Quaternion(FDiv(FNeg(q.x), lenSq), FDiv(FNeg(q.y), lenSq),
                        FDiv(FNeg(q.z), lenSq), FDiv(q.w, lenSq))

Quaternion_fromSinCos(axis, s, c) ==
    Quaternion(FMul(axis.x, s), FMul(axis.y, s), FMul(axis.z, s), c)
Quaternion_fromHalfAngle(axis, halfAngle) ==
    Quaternion_fromSinCos(axis, Math_sin(halfAngle), Math_cos(halfAngle))
\* A faulty variant: the angle itself is used where half of it belongs.
Quaternion_fromAxisAngle_fullAngle(axis, angle) ==
    Quaternion_fromHalfAngle(axis, angle)
Quaternion_fromAxisAngle(axis, angle) ==
    Quaternion_fromHalfAngle(axis, FMul(angle, FHalf))

\* A faulty variant: q * (v, 0) * q, without the inverse.
Quaternion_rotate_noInverse(q, v) ==
    CVector3(Quaternion_mul(Quaternion_mul(q, Quaternion(v.x, v.y, v.z, F0)), q).x,
             Quaternion_mul(Quaternion_mul(q, Quaternion(v.x, v.y, v.z, F0)), q).y,
             Quaternion_mul(Quaternion_mul(q, Quaternion(v.x, v.y, v.z, F0)), q).z)

\* A faulty variant: the product is closed with the bare conjugate.
Quaternion_rotate_conjugate(q, v) ==
    CVector3(Quaternion_mul(Quaternion_mul(q, Quaternion(v.x, v.y, v.z, F0)),
                            Quaternion(FNeg(q.x), FNeg(q.y), FNeg(q.z), q.w)).x,
             Quaternion_mul(Quaternion_mul(q, Quaternion(v.x, v.y, v.z, F0)),
                            Quaternion(FNeg(q.x), FNeg(q.y), FNeg(q.z), q.w)).y,
             Quaternion_mul(Quaternion_mul(q, Quaternion(v.x, v.y, v.z, F0)),
                            Quaternion(FNeg(q.x), FNeg(q.y), FNeg(q.z), q.w)).z)

Quaternion_xyz(result) == CVector3(result.x, result.y, result.z)
Quaternion_rotate(q, v) ==
    Quaternion_xyz(Quaternion_mul(Quaternion_mul(q, Quaternion(v.x, v.y, v.z, F0)),
                                  Quaternion_inverse(q)))

\* A faulty variant: the blend is not renormalized.
Quaternion_lerp_unnormalized(a, b, t0) ==
    LET t == IF FLt(t0, F0) THEN F0 ELSE IF FGt(t0, F1) THEN F1 ELSE t0
    IN  Quaternion(FAdd(a.x, FMul(FSub(b.x, a.x), t)),
                   FAdd(a.y, FMul(FSub(b.y, a.y), t)),
                   FAdd(a.z, FMul(FSub(b.z, a.z), t)),
                   FAdd(a.w, FMul(FSub(b.w, a.w), t)))

Quaternion_lerp(a, b, t0) ==
    LET t == IF FLt(t0, F0) THEN F0 ELSE IF FGt(t0, F1) THEN F1 ELSE t0
    IN  Quaternion_normalized(
            Quaternion(FAdd(a.x, FMul(FSub(b.x, a.x), t)),
                       FAdd(a.y, FMul(FSub(b.y, a.y), t)),
                       FAdd(a.z, FMul(FSub(b.z, a.z), t)),
                       FAdd(a.w, FMul(FSub(b.w, a.w), t))))

(***************************************************************************)
(* EU::Matrix2x2 (Matrices/Matrix2x2.h)                                    *)
(***************************************************************************)
Matrix2x2(m00, m01, m10, m11) ==
    [m00 |-> m00, m01 |-> m01, m10 |-> m10, m11 |-> m11]

\* The default constructor.
Matrix2x2_identity == Matrix2x2(F1, F0, F0, F1)

Matrix2x2_add(a, other) ==
    Matrix2x2(FAdd(a.m00, other.m00), FAdd(a.m01, other.m01),
              FAdd(a.m10, other.m10), FAdd(a.m11, other.m11))
Matrix2x2_sub(a, other) ==
    Matrix2x2(FSub(a.m00, other.m00), FSub(a.m01, other.m01),
              FSub(a.m10, other.m10), FSub(a.m11, other.m11))
Matrix2x2_addAssign(a, other) ==
    AssignMember(AssignMember(AssignMember(AssignMember(a, other, "m00", FAdd),
        other, "m01", FAdd), other, "m10", FAdd), other, "m11", FAdd)
Matrix2x2_subAssign(a, other) ==
    AssignMember(AssignMember(AssignMember(AssignMember(a, other, "m00", FSub),
        other, "m01", FSub), other, "m10", FSub), other, "m11", FSub)

\* The four float members in declaration order: (&m00) + k is member k.
Matrix2x2_members == <<"m00", "m01", "m10", "m11">>

\* A faulty variant: column-major offsets.
Matrix2x2_offset_columnMajor(row, col) == col * 2 + row

\* The offset row * 2 + col of operator()(row, col).
Matrix2x2_offset(row, col) == row * 2 + col

\* operator()(row, col): the member *((&m00) + row * 2 + col) names, then a
\* read of it and a write through it.
Matrix2x2_ref(row, col) == Matrix2x2_members[Matrix2x2_offset(row, col) + 1]
Matrix2x2_at(a, row, col) == a[Matrix2x2_ref(row, col)]
Matrix2x2_assign(a, row, col, value) ==
    [a EXCEPT ![Matrix2x2_ref(row, col)] = value]

\* A faulty variant: the product entry by entry.
Matrix2x2_mul_entrywise(a, other) ==
    Matrix2x2(FMul(a.m00, other.m00), FMul(a.m01, other.m01),
              FMul(a.m10, other.m10), FMul(a.m11, other.m11))

Matrix2x2_mul(a, other) ==
    Matrix2x2(FAdd(FMul(a.m00, other.m00), FMul(a.m01, other.m10)),
              FAdd(FMul(a.m00, other.m01), FMul(a.m01, other.m11)),
              FAdd(FMul(a.m10, other.m00), FMul(a.m11, other.m10)),
              FAdd(FMul(a.m10, other.m01), FMul(a.m11, other.m11)))

\* A faulty variant: the two products are added.
Matrix2x2_determinant_added(a) == FAdd(FMul(a.m00, a.m11), FMul(a.m01, a.m10))

Matrix2x2_determinant(a) == FSub(FMul(a.m00, a.m11), FMul(a.m01, a.m10))

\* A faulty variant: the off-diagonal entries stay where they are.
Matrix2x2_transpose_unswapped(a) == Matrix2x2(a.m00, a.m01, a.m10, a.m11)
Matrix2x2_transpose(a) == Matrix2x2(a.m00, a.m10, a.m01, a.m11)

\* A faulty variant: the diagonal is not swapped.
Matrix2x2_scaledAdjugate_unswapped(a, invDet) ==
    Matrix2x2(FMul(a.m00, invDet), FMul(FNeg(a.m01), invDet),
              FMul(FNeg(a.m10), invDet), FMul(a.m11, invDet))

Matrix2x2_scaledAdjugate(a, invDet) ==
    Matrix2x2(FMul(a.m11, invDet), FMul(FNeg(a.m01), invDet),
              FMul(FNeg(a.m10), invDet), FMul(a.m00, invDet))

Matrix2x2_inverseDet(a, det) ==
    IF FEq(det, F0) THEN Matrix2x2_identity
    ELSE Matrix2x2_scaledAdjugate(a, FDiv(F1, det))

Matrix2x2_inverse(a) == Matrix2x2_inverseDet(a, Matrix2x2_determinant(a))

(***************************************************************************)
(* EngineUtilities::Matrix2x2 (the older Matrix2x2.h), float m[2][2]       *)
(***************************************************************************)
EngineUtilities_Matrix2x2(a, b, c, d) ==
    (0 :> (0 :> a @@ 1 :> b)) @@ (1 :> (0 :> c @@ 1 :> d))

EngineUtilities_Matrix2x2_transpose(a) ==
    EngineUtilities_Matrix2x2(a[0][0], a[1][0], a[0][1], a[1][1])

EngineUtilities_Matrix2x2_determinant(a) ==
    FSub(FMul(a[0][0], a[1][1]), FMul(a[0][1], a[1][0]))

EngineUtilities_Matrix2x2_scaledAdjugate(a, invDet) ==
    EngineUtilities_Matrix2x2(FMul(a[1][1], invDet), FMul(FNeg(a[0][1]), invDet),
                              FMul(FNeg(a[1][0]), invDet), FMul(a[0][0], invDet))

EngineUtilities_Matrix2x2_inverseDet(a, det) ==
    IF FEq(det, F0) THEN EngineUtilities_Matrix2x2(F1, F0, F0, F1)
    ELSE EngineUtilities_Matrix2x2_scaledAdjugate(a, FDiv(F1, det))

EngineUtilities_Matrix2x2_inverse(a) ==
    EngineUtilities_Matrix2x2_inverseDet(a, EngineUtilities_Matrix2x2_determinant(a))

(***************************************************************************)
(* EU::Matrix3x3 (Matrices/Matrix3x3.h), float m[3][3]                      *)
(***************************************************************************)
Matrix3x3(m00, m01, m02, m10, m11, m12, m20, m21, m22) ==
    (0 :> (0 :> m00 @@ 1 :> m01 @@ 2 :> m02)) @@
    (1 :> (0 :> m10 @@ 1 :> m11 @@ 2 :> m12)) @@
    (2 :> (0 :> m20 @@ 1 :> m21 @@ 2 :> m22))

Matrix3x3_identity == Matrix3x3(F1, F0, F0, F0, F1, F0, F0, F0, F1)

Matrix3x3_zero == Matrix3x3(F0, F0, F0, F0, F0, F0, F0, F0, F0)

Matrix3x3_mulScalar(a, scalar) ==
    [i \in 0 .. 2 |-> [j \in 0 .. 2 |-> FMul(a[i][j], scalar)]]

\* r.m[row][col] of operator*: the zero of zero() plus the three products.
Matrix3x3_mulElem(a, o, row, col) ==
    FAdd(FAdd(FAdd(F0, FMul(a[row][0], o[0][col])), FMul(a[row][1], o[1][col])),
         FMul(a[row][2], o[2][col]))

Matrix3x3_mul(a, o) ==
    [row \in 0 .. 2 |-> [col \in 0 .. 2 |-> Matrix3x3_mulElem(a, o, row, col)]]

Matrix3x3_determinant(a) ==
    FAdd(FSub(FMul(a[0][0], FSub(FMul(a[1][1], a[2][2]), FMul(a[1][2], a[2][1]))),
              FMul(a[0][1], FSub(FMul(a[1][0], a[2][2]), FMul(a[1][2], a[2][0])))),
         FMul(a[0][2], FSub(FMul(a[1][0], a[2][1]), FMul(a[1][1], a[2][0]))))

Matrix3x3_transpose(a) == [i \in 0 .. 2 |-> [j \in 0 .. 2 |-> a[j][i]]]

Matrix3x3_signed(row, col, minor) ==
    IF (row + col) % 2 = 0 THEN minor ELSE FNeg(minor)

Matrix3x3_minor(a, r1, r2, c1, c2) ==
    FSub(FMul(a[r1][c1], a[r2][c2]), FMul(a[r1][c2], a[r2][c1]))

Matrix3x3_cofactor(a, row, col) ==
    Matrix3x3_signed(row, col,
        Matrix3x3_minor(a, (row + 1) % 3, (row + 2) % 3,
                        (col + 1) % 3, (col + 2) % 3))

Matrix3x3_cofactorMatrix(a) ==
    [row \in 0 .. 2 |-> [col \in 0 .. 2 |-> Matrix3x3_cofactor(a, row, col)]]

Matrix3x3_adjugate(a) == Matrix3x3_transpose(Matrix3x3_cofactorMatrix(a))

\* operator()(row, col) is m[row][col]: a read of it and a write through it.
Matrix3x3_at(a, row, col) == a[row][col]
Matrix3x3_assign(a, row, col, value) == [a EXCEPT ![row][col] = value]

\* The CVector2 the product with a vector takes and returns: floats x, y.
CVector2(x, y) == [x |-> x, y |-> y]

\* m[i][0] * vec.x + m[i][1] * vec.y + m[i][2] * 1.0f
Matrix3x3_homogeneousRow(a, i, vec) ==
    FAdd(FAdd(FMul(a[i][0], vec.x), FMul(a[i][1], vec.y)), FMul(a[i][2], F1))

Matrix3x3_perspectiveDivide(x, y, w) ==
    IF FNe(w, F0) THEN CVector2(FDiv(x, w), FDiv(y, w)) ELSE CVector2(x, y)

\* A faulty variant: w is computed and never divided by.
Matrix3x3_mulVec2_undivided(a, vec) ==
    CVector2(Matrix3x3_homogeneousRow(a, 0, vec),
             Matrix3x3_homogeneousRow(a, 1, vec))

\* operator*(const CVector2&)
Matrix3x3_mulVec2(a, vec) ==
    Matrix3x3_perspectiveDivide(Matrix3x3_homogeneousRow(a, 0, vec),
                                Matrix3x3_homogeneousRow(a, 1, vec),
                                Matrix3x3_homogeneousRow(a, 2, vec))

\* A faulty variant: no test of the determinant.
Matrix3x3_inverseDet_unguarded(a, det) ==
    Matrix3x3_mulScalar(Matrix3x3_adjugate(a), FDiv(F1, det))

Matrix3x3_inverseDet(a, det) ==
    IF FEq(det, F0) THEN Matrix3x3_identity
    ELSE Matrix3x3_mulScalar(Matrix3x3_adjugate(a), FDiv(F1, det))

Matrix3x3_inverse(a) == Matrix3x3_inverseDet(a, Matrix3x3_determinant(a))

(***************************************************************************)
(* EngineUtilities::Matrix3x3 (the older Matrix3x3.h): float m[3][3]       *)
(***************************************************************************)
\* result starts as the identity and every entry of it is then assigned.
EngineUtilities_Matrix3x3_transpose(a) ==
    [i \in 0 .. 2 |-> [j \in 0 .. 2 |-> a[j][i]]]
\* A faulty variant: the middle term is added.
EngineUtilities_Matrix3x3_determinant_allAdded(a) ==
    FAdd(FAdd(FMul(a[0][0], FSub(FMul(a[1][1], a[2][2]), FMul(a[1][2], a[2][1]))),
              FMul(a[0][1], FSub(FMul(a[1][0], a[2][2]), FMul(a[1][2], a[2][0])))),
         FMul(a[0][2], FSub(FMul(a[1][0], a[2][1]), FMul(a[1][1], a[2][0]))))

EngineUtilities_Matrix3x3_determinant(a) ==
    FAdd(FSub(FMul(a[0][0], FSub(FMul(a[1][1], a[2][2]), FMul(a[1][2], a[2][1]))),
              FMul(a[0][1], FSub(FMul(a[1][0], a[2][2]), FMul(a[1][2], a[2][0])))),
         FMul(a[0][2], FSub(FMul(a[1][0], a[2][1]), FMul(a[1][1], a[2][0]))))

(***************************************************************************)
(* EngineUtilities::Matrix4x4 (Matrix4x4.h): float m[4][4]                 *)
(***************************************************************************)
\* The constructor Matrix4x4(float diag = 1.0f).
Matrix4x4(diag) ==
    [i \in 0 .. 3 |-> [j \in 0 .. 3 |-> IF i = j THEN diag ELSE F0]]
Matrix4x4_identity == Matrix4x4(F1)
\* result starts as the identity and every entry of it is then assigned.
Matrix4x4_transpose(a) ==
    [i \in 0 .. 3 |-> [j \in 0 .. 3 |-> a[j][i]]]
Matrix4x4_translate(tx, ty, tz) ==
    [Matrix4x4_identity EXCEPT ![0][3] = tx, ![1][3] = ty, ![2][3] = tz]
Matrix4x4_scale(sx, sy, sz) ==
    [Matrix4x4_identity EXCEPT ![0][0] = sx, ![1][1] = sy, ![2][2] = sz]

(***************************************************************************)
(* The state: one object `obj` of class `cls`, constructed from bounded     *)
(* inputs, and the log `calls` of the calls made on it, each with its       *)
(* receiver, argument and result.  A const method leaves `obj` alone and    *)
(* its result may be the receiver of one more call (q.normalized()          *)
(* .rotate(v)); an in-place method replaces `obj`.                          *)
(***************************************************************************)
VARIABLES cls, obj, calls

vars == <<cls, obj, calls>>

MaxCoord == 1

Coords == (0 - MaxCoord) .. MaxCoord

NoArg == [none |-> 0]
Call(m, recv, arg, res) == [m |-> m, recv |-> recv, arg |-> arg, res |-> res]
Last == calls[Len(calls)]
First == calls[1]
Called(m) == Len(calls) = 1 /\ First.m = m
CalledThen(m1, m2) == Len(calls) = 2 /\ First.m = m1 /\ Last.m = m2
\* The next call is the first one, or follows a call of one of the methods S.
After(S) == IF calls = <<>> THEN TRUE ELSE Len(calls) < 2 /\ Last.m \in S
Log(c) == calls' = Append(calls, c)

(***************************************************************************)
(* Quaternion calls                                                        *)
(***************************************************************************)
QuatInputs ==
    {Quaternion(F(a), F(b), F(c), F(d)) : a \in Coords, b \in Coords,
                                           c \in Coords, d \in Coords}
\* The zero quaternion, the units i, j, k, 1 and the unit (1 + i + j + k) / 2.
QuatArgs ==
    {Quaternion(F(t[1]), F(t[2]), F(t[3]), F(t[4])) :
        t \in {u \in (0 .. 1) \X (0 .. 1) \X (0 .. 1) \X (0 .. 1) :
                  u[1] + u[2] + u[3] + u[4] <= 1}}
    \cup {Quaternion(FHalf, FHalf, FHalf, FHalf)}
\* The zero vector, the unit vectors and the sums of two of them.
VecArgs ==
    {CVector3(F(t[1]), F(t[2]), F(t[3])) :
        t \in {u \in (0 .. 1) \X (0 .. 1) \X (0 .. 1) : u[1] + u[2] + u[3] <= 2}}
MulArgs == QuatArgs \ {Quaternion(F0, F0, F0, F0)}
LerpT == {F(0 - 1), F0, FHalf, FTwo}
\* The literal 3.1416f that main() uses for pi.
MainPi == Fin(0, 13176825, 0 - 22)
\* 0, a quarter turn (from either literal for pi) and a half turn.
AxisAngles == {F0, FDiv(MainPi, FTwo), FDiv(Math_PI, FTwo), MainPi}

QInPlace == {"normalize", "operator*="}
QUnary == {"normalize", "normalized", "inverse"}
QOnObj == IF calls = <<>> THEN TRUE ELSE Last.m \in QInPlace
QRecv == IF QOnObj THEN obj ELSE Last.res
Quaternion_neg(q) == Quaternion(FNeg(q.x), FNeg(q.y), FNeg(q.z), FNeg(q.w))

InitQuat ==
    /\ cls = "Quaternion"
    /\ obj \in QuatInputs
    /\ calls = <<>>

\* q * o and identity() * q, (q * o1) * o2, and after a unary call
\* r = q.f(): r * q and q * r.
QMul ==
    /\ cls = "Quaternion"
    /\ After(QUnary \cup {"operator*"})
    /\ \E p \in IF (IF calls = <<>> THEN TRUE ELSE Last.m = "operator*")
                THEN {<<QRecv, o>> : o \in MulArgs}
                     \cup (IF calls = <<>> THEN {<<Quaternion_identity, obj>>}
                           ELSE {})
                ELSE {<<QRecv, obj>>, <<obj, Last.res>>} :
          Log(Call("operator*", p[1], p[2], Quaternion_mul(p[1], p[2])))
    /\ UNCHANGED <<cls, obj>>

QMulAssign ==
    /\ cls = "Quaternion"
    /\ After({"operator*="})
    /\ \E o \in MulArgs :
          /\ obj' = Quaternion_mul(obj, o)
          /\ Log(Call("operator*=", obj, o, obj'))
    /\ UNCHANGED cls

QLength ==
    /\ cls = "Quaternion"
    /\ After(QUnary)
    /\ Log(Call("length", QRecv, NoArg, Quaternion_length(QRecv)))
    /\ UNCHANGED <<cls, obj>>

QNormalize ==
    /\ cls = "Quaternion"
    /\ calls = <<>>
    /\ obj' = Quaternion_normalize(obj)
    /\ Log(Call("normalize", obj, NoArg, obj'))
    /\ UNCHANGED cls

QNormalized ==
    /\ cls = "Quaternion"
    /\ After(QUnary)
    /\ Log(Call("normalized", QRecv, NoArg, Quaternion_normalized(QRecv)))
    /\ UNCHANGED <<cls, obj>>

QInverse ==
    /\ cls = "Quaternion"
    /\ After(QUnary)
    /\ Log(Call("inverse", QRecv, NoArg, Quaternion_inverse(QRecv)))
    /\ UNCHANGED <<cls, obj>>

\* The static fromAxisAngle(axis, angle), called on a default-constructed
\* quaternion.
QFromAxisAngle ==
    /\ cls = "Quaternion"
    /\ calls = <<>>
    /\ obj = Quaternion_identity
    /\ \E axis \in VecArgs, angle \in AxisAngles :
          Log(Call("fromAxisAngle", obj, [axis |-> axis, angle |-> angle],
                   Quaternion_fromAxisAngle(axis, angle)))
    /\ UNCHANGED <<cls, obj>>

QRotate ==
    /\ cls = "Quaternion"
    /\ After({"normalize", "normalized", "fromAxisAngle"})
    /\ \E v \in VecArgs :
          Log(Call("rotate", QRecv, v, Quaternion_rotate(QRecv, v)))
    /\ UNCHANGED <<cls, obj>>

\* The quaternion Quaternion(k * q.x, k * q.y, k * q.z, k * q.w), and the
\* factors k it is built with.
Quaternion_scaled(q, k) ==
    Quaternion(FMul(q.x, k), FMul(q.y, k), FMul(q.z, k), FMul(q.w, k))
QuatScales == {F(0 - 1), FHalf, F(3)}

\* After q.rotate(v): the same v rotated by a quaternion k times q.
QRotateScaled ==
    /\ cls = "Quaternion"
    /\ Called("rotate")
    /\ First.recv = obj
    /\ \E k \in QuatScales :
          Log(Call("rotate", Quaternion_scaled(obj, k), First.arg,
                   Quaternion_rotate(Quaternion_scaled(obj, k), First.arg)))
    /\ UNCHANGED <<cls, obj>>

\* The static lerp(a, b, t), a the object.
QLerp ==
    /\ cls = "Quaternion"
    /\ calls = <<>>
    /\ \E b \in QuatArgs \cup {obj, Quaternion_neg(obj)}, t \in LerpT :
          Log(Call("lerp", obj, [b |-> b, t |-> t],
                   Quaternion_lerp(obj, b, t)))
    /\ UNCHANGED <<cls, obj>>

NextQuat ==
    \/ QMul
    \/ QMulAssign
    \/ QLength
    \/ QNormalize
    \/ QNormalized
    \/ QInverse
    \/ QFromAxisAngle
    \/ QRotate
    \/ QRotateScaled
    \/ QLerp

SpecQuat == InitQuat /\ [][NextQuat]_vars

(***************************************************************************)
(* Vector calls: CVector3, CVector4 and the older EngineUtilities::Vector3 *)
(***************************************************************************)
\* Components are small integers times a scale: 2^-100 (whose square
\* underflows to 0), 1 and 1000.
VecScales == {Fin(0, Hidden, 0 - 123), F1, F(1000)}
Vec3Inputs ==
    {CVector3(FMul(F(a), k), FMul(F(b), k), FMul(F(c), k)) :
        a \in Coords, b \in Coords, c \in Coords, k \in VecScales}
Vec4Inputs ==
    {CVector4(FMul(F(a), k), FMul(F(b), k), FMul(F(c), k), FMul(F(d), k)) :
        a \in Coords, b \in Coords, c \in Coords, d \in Coords, k \in VecScales}

VecClasses == {"CVector3", "CVector4", "Vector3"}
Vec_length(c, v) ==
    IF c = "CVector3" THEN CVector3_length(v)
    ELSE IF c = "CVector4" THEN CVector4_length(v)
    ELSE Vector3_magnitude(v)
Vec_normalized(c, v) ==
    IF c = "CVector3" THEN CVector3_normalized(v)
    ELSE IF c = "CVector4" THEN CVector4_normalized(v)
    ELSE Vector3_normalized(v)
Vec_normalize(c, v) ==
    IF c = "CVector3" THEN CVector3_normalize(v) ELSE CVector4_normalize(v)
Vec_zero(c) ==
    IF c = "CVector4" THEN CVector4(F0, F0, F0, F0) ELSE CVector3(F0, F0, F0)
Vec_eq(c, a, b) ==
    IF c = "CVector4" THEN CVector4_eq(a, b) ELSE CVector3_eq(a, b)

InitVec ==
    /\ cls \in VecClasses
    /\ obj \in IF cls = "CVector4" THEN Vec4Inputs ELSE Vec3Inputs
    /\ calls = <<>>

\* v.length(), and v.normalized().length(); magnitude() for the older Vector3.
VLength ==
    /\ cls \in VecClasses
    /\ After({"normalized", "normalize"})
    /\ Log(Call(IF cls = "Vector3" THEN "magnitude" ELSE "length",
                IF Len(calls) = 1 /\ First.m = "normalized" THEN First.res ELSE obj,
                NoArg,
                Vec_length(cls, IF Len(calls) = 1 /\ First.m = "normalized"
                                THEN First.res ELSE obj)))
    /\ UNCHANGED <<cls, obj>>

VNormalized ==
    /\ cls \in VecClasses
    /\ calls = <<>>
    /\ Log(Call("normalized", obj, NoArg, Vec_normalized(cls, obj)))
    /\ UNCHANGED <<cls, obj>>

\* v.normalize(), as the first call or after n = v.normalized().
VNormalize ==
    /\ cls \in {"CVector3", "CVector4"}
    /\ After({"normalized"})
    /\ obj' = Vec_normalize(cls, obj)
    /\ Log(Call("normalize", obj, NoArg, obj'))
    /\ UNCHANGED cls

\* The end points b of lerp(v, b, t): 0/1 vectors and one of tiny components.
Tiny == Fin(0, Hidden, 0 - 123)
Lerp3Ends == VecArgs \cup {CVector3(Tiny, F0, FNeg(Tiny))}
Lerp4Ends ==
    {CVector4(F(u[1]), F(u[2]), F(u[3]), F(u[4])) :
        u \in {w \in (0 .. 1) \X (0 .. 1) \X (0 .. 1) \X (0 .. 1) :
                  w[1] + w[2] + w[3] + w[4] <= 1}}
    \cup {CVector4(Tiny, F0, FNeg(Tiny), F1)}
VecLerpT == {F(0 - 1), F0, FHalf, F1, FTwo}

\* The static lerp(a, b, t), a the object.
VLerp ==
    /\ cls \in {"CVector3", "CVector4"}
    /\ calls = <<>>
    /\ \E b \in IF cls = "CVector3" THEN Lerp3Ends ELSE Lerp4Ends,
          t \in VecLerpT :
          Log(Call("lerp", obj, [b |-> b, t |-> t],
                   IF cls = "CVector3" THEN CVector3_lerp(obj, b, t)
                   ELSE CVector4_lerp(obj, b, t)))
    /\ UNCHANGED <<cls, obj>>

MaxIndex == 5
Indices == (0 - MaxIndex) .. MaxIndex
Vec_indexRef(c, index) ==
    IF c = "CVector3" THEN CVector3_indexRef(index) ELSE CVector4_indexRef(index)

\* v[index] read through the const overload.
VIndex ==
    /\ cls \in {"CVector3", "CVector4"}
    /\ calls = <<>>
    /\ \E index \in Indices :
          Log(Call("operator[] const", obj, index,
                   IF cls = "CVector3" THEN CVector3_index(obj, index)
                   ELSE CVector4_index(obj, index)))
    /\ UNCHANGED <<cls, obj>>

\* v[index] = 7.f through the reference the non-const overload returns.
VIndexAssign ==
    /\ cls \in {"CVector3", "CVector4"}
    /\ calls = <<>>
    /\ \E index \in Indices :
          /\ obj' = [obj EXCEPT ![Vec_indexRef(cls, index)] = F(7)]
          /\ Log(Call("operator[]", obj, index, obj[Vec_indexRef(cls, index)]))
    /\ UNCHANGED cls

\* v.cross(o).
VCross ==
    /\ cls \in {"CVector3", "Vector3"}
    /\ calls = <<>>
    /\ \E o \in VecArgs :
          Log(Call("cross", obj, o,
                   IF cls = "CVector3" THEN CVector3_cross(obj, o)
                   ELSE Vector3_cross(obj, o)))
    /\ UNCHANGED <<cls, obj>>

NextVec ==
    \/ VLength
    \/ VNormalized
    \/ VNormalize
    \/ VCross
    \/ VLerp
    \/ VIndex
    \/ VIndexAssign

SpecVec == InitVec /\ [][NextVec]_vars

(***************************************************************************)
(* Matrix calls: EU::Matrix2x2, EngineUtilities::Matrix2x2, EU::Matrix3x3  *)
(***************************************************************************)
Mat2Inputs ==
    {Matrix2x2(F(a), F(b), F(c), F(d)) :
        a \in Coords, b \in Coords, c \in Coords, d \in Coords}
OldMat2Inputs ==
    {EngineUtilities_Matrix2x2(F(a), F(b), F(c), F(d)) :
        a \in Coords, b \in Coords, c \in Coords, d \in Coords}
Rows3 == {<<F(a), F(b), F(c)>> : a \in 0 .. MaxCoord, b \in 0 .. MaxCoord,
                                  c \in 0 .. MaxCoord}
Mat3Inputs ==
    {Matrix3x3(r0[1], r0[2], r0[3], r1[1], r1[2], r1[3], r2[1], r2[2], r2[3]) :
        r0 \in Rows3, r1 \in Rows3, r2 \in Rows3}

\* The public array m of a Matrix4x4 filled with consecutive integers.
Mat4Filled(k) == [i \in 0 .. 3 |-> [j \in 0 .. 3 |-> F(4 * i + j + k)]]
Mat4Inputs ==
    {Matrix4x4(F(d)) : d \in Coords}
    \cup {Matrix4x4_translate(F(a), F(b), F(c)) :
              a \in Coords, b \in Coords, c \in Coords}
    \cup {Matrix4x4_scale(F(a), F(b), F(c)) :
              a \in Coords, b \in Coords, c \in Coords}
    \cup {Mat4Filled(k) : k \in Coords}

\* The two matrices main() multiplies, a 3x3 matrix of 1 .. 9 (which is
\* singular) and a 3x3 matrix of determinant 7.
MainMat2 == {Matrix2x2(F1, F(2), F(3), F(4)), Matrix2x2(F(5), F(6), F(7), F(8))}
Mat3Filled == Matrix3x3(F1, F(2), F(3), F(4), F(5), F(6), F(7), F(8), F(9))
Mat3Regular == Matrix3x3(F(2), F0, F1, F1, F(3), F0, F0, F1, F1)
\* The 3x3 matrices whose elements and cofactors are asked for one by one:
\* the two above and the shear (1,1,0; 0,1,0; 0,0,1).
Mat3Probes ==
    {Mat3Filled, Mat3Regular, Matrix3x3(F1, F1, F0, F0, F1, F0, F0, F0, F1)}
\* The 3x3 matrices that are also transformed points, adjugated and
\* multiplied before a determinant: the probes and the inputs whose bottom
\* row is (0, 0|1, 0|1).
Mat3Sampled(a) ==
    IF a \in Mat3Probes THEN TRUE
    ELSE /\ a[2][0] = F0
         /\ a[2][1] \in {F0, F1}
         /\ a[2][2] \in {F0, F1}
MatMulArgs(c) ==
    IF c = "Matrix2x2" THEN MainMat2 \cup {Matrix2x2_identity}
    ELSE {Mat3Filled, Mat3Regular, Matrix3x3_identity}

InvertibleClasses == {"Matrix2x2", "EngineUtilities_Matrix2x2", "Matrix3x3"}
DeterminantClasses == InvertibleClasses \cup {"EngineUtilities_Matrix3x3"}
MatClasses == DeterminantClasses \cup {"Matrix4x4"}
Mat_transpose(c, a) ==
    IF c = "Matrix2x2" THEN Matrix2x2_transpose(a)
    ELSE IF c = "Matrix3x3" THEN Matrix3x3_transpose(a)
    ELSE IF c = "EngineUtilities_Matrix3x3" THEN EngineUtilities_Matrix3x3_transpose(a)
    ELSE IF c = "Matrix4x4" THEN Matrix4x4_transpose(a)
    ELSE EngineUtilities_Matrix2x2_transpose(a)
Mat_determinant(c, a) ==
    IF c = "Matrix2x2" THEN Matrix2x2_determinant(a)
    ELSE IF c = "Matrix3x3" THEN Matrix3x3_determinant(a)
    ELSE IF c = "EngineUtilities_Matrix3x3"
    THEN EngineUtilities_Matrix3x3_determinant(a)
    ELSE EngineUtilities_Matrix2x2_determinant(a)
Mat_inverse(c, a) ==
    IF c = "Matrix2x2" THEN Matrix2x2_inverse(a)
    ELSE IF c = "Matrix3x3" THEN Matrix3x3_inverse(a)
    ELSE EngineUtilities_Matrix2x2_inverse(a)
Mat_mul(c, a, o) ==
    IF c = "Matrix2x2" THEN Matrix2x2_mul(a, o) ELSE Matrix3x3_mul(a, o)
Mat_identity(c) ==
    IF c = "Matrix2x2" THEN Matrix2x2_identity
    ELSE IF c = "Matrix3x3" THEN Matrix3x3_identity
    ELSE EngineUtilities_Matrix2x2(F1, F0, F0, F1)

InitMat ==
    /\ cls \in MatClasses
    /\ obj \in IF cls = "Matrix2x2" THEN Mat2Inputs \cup MainMat2
               ELSE IF cls = "Matrix3x3" THEN Mat3Inputs \cup Mat3Probes
               ELSE IF cls = "EngineUtilities_Matrix3x3"
               THEN {a \in Mat3Inputs : Mat3Sampled(a)}
               ELSE IF cls = "Matrix4x4" THEN Mat4Inputs ELSE OldMat2Inputs
    /\ calls = <<>>

\* M.determinant(), and (M * o).determinant().
MDeterminant ==
    /\ cls \in DeterminantClasses
    /\ After({"operator*"})
    /\ IF cls = "Matrix3x3" /\ calls # <<>> THEN Mat3Sampled(obj) ELSE TRUE
    /\ Log(Call("determinant", IF calls = <<>> THEN obj ELSE Last.res, NoArg,
                Mat_determinant(cls, IF calls = <<>> THEN obj ELSE Last.res)))
    /\ UNCHANGED <<cls, obj>>

MInverse ==
    /\ cls \in InvertibleClasses
    /\ calls = <<>>
    /\ Log(Call("inverse", obj, NoArg, Mat_inverse(cls, obj)))
    /\ UNCHANGED <<cls, obj>>

\* M * o and identity * M; after r = M.inverse() or r = M.adjugate(): M * r
\* and r * M.
MMul ==
    /\ cls \in {"Matrix2x2", "Matrix3x3"}
    /\ After({"inverse", "adjugate"})
    /\ \E p \in IF calls = <<>>
                THEN {<<obj, o>> : o \in MatMulArgs(cls)}
                     \cup {<<Mat_identity(cls), obj>>}
                ELSE {<<obj, First.res>>, <<First.res, obj>>} :
          Log(Call("operator*", p[1], p[2], Mat_mul(cls, p[1], p[2])))
    /\ UNCHANGED <<cls, obj>>

\* M.transpose(), and M.transpose().transpose().
MTranspose ==
    /\ cls \in MatClasses
    /\ After({"transpose"})
    /\ Log(Call("transpose", IF calls = <<>> THEN obj ELSE Last.res, NoArg,
                Mat_transpose(cls, IF calls = <<>> THEN obj ELSE Last.res)))
    /\ UNCHANGED <<cls, obj>>

\* The 2D points a Matrix3x3 is applied to.
Vec2Args ==
    {CVector2(F(p[1]), F(p[2])) :
        p \in {<<1, 1>>, <<0 - 1, 1>>, <<3, 2>>}}

\* M * vec for a CVector2.
MMulVec2 ==
    /\ cls = "Matrix3x3"
    /\ Mat3Sampled(obj)
    /\ calls = <<>>
    /\ \E vec \in Vec2Args :
          Log(Call("operator*(CVector2)", obj, vec, Matrix3x3_mulVec2(obj, vec)))
    /\ UNCHANGED <<cls, obj>>

\* M.cofactor(row, col).
MCofactor ==
    /\ cls = "Matrix3x3"
    /\ obj \in Mat3Probes
    /\ calls = <<>>
    /\ \E row \in 0 .. 2, col \in 0 .. 2 :
          Log(Call("cofactor", obj, [row |-> row, col |-> col],
                   Matrix3x3_cofactor(obj, row, col)))
    /\ UNCHANGED <<cls, obj>>

\* M.adjugate().
MAdjugate ==
    /\ cls = "Matrix3x3"
    /\ Mat3Sampled(obj)
    /\ calls = <<>>
    /\ Log(Call("adjugate", obj, NoArg, Matrix3x3_adjugate(obj)))
    /\ UNCHANGED <<cls, obj>>

\* The row and column indices of a class with operator()(row, col).
IndexedClasses == {"Matrix2x2", "Matrix3x3"}
Mat_indices(c) == IF c = "Matrix2x2" THEN 0 .. 1 ELSE 0 .. 2
Mat_at(c, a, row, col) ==
    IF c = "Matrix2x2" THEN Matrix2x2_at(a, row, col)
    ELSE Matrix3x3_at(a, row, col)
Mat_assign(c, a, row, col, value) ==
    IF c = "Matrix2x2" THEN Matrix2x2_assign(a, row, col, value)
    ELSE Matrix3x3_assign(a, row, col, value)
Position(row, col) == [row |-> row, col |-> col]
\* Elements are read and written on every 2x2 input and on the 3x3 probes.
ElementInput == IF cls = "Matrix2x2" THEN TRUE ELSE obj \in Mat3Probes

\* M(row, col) = 7.0f through the non-const operator().
MElementAssign ==
    /\ cls \in IndexedClasses
    /\ ElementInput
    /\ calls = <<>>
    /\ \E row \in Mat_indices(cls), col \in Mat_indices(cls) :
          /\ obj' = Mat_assign(cls, obj, row, col, F(7))
          /\ Log(Call("operator()", obj, Position(row, col), F(7)))
    /\ UNCHANGED cls

\* A read M(row, col) through the const operator(): of any element at
\* first, of the element just written after a write.
MElement ==
    /\ cls \in IndexedClasses
    /\ IF calls = <<>> THEN ElementInput ELSE TRUE
    /\ After({"operator()"})
    /\ \E row \in Mat_indices(cls), col \in Mat_indices(cls) :
          /\ calls # <<>> => Last.arg = Position(row, col)
          /\ Log(Call("operator() const", obj, Position(row, col),
                      Mat_at(cls, obj, row, col)))
    /\ UNCHANGED <<cls, obj>>

NextMat ==
    \/ MDeterminant
    \/ MInverse
    \/ MMul
    \/ MTranspose
    \/ MMulVec2
    \/ MElementAssign
    \/ MElement
    \/ MCofactor
    \/ MAdjugate

SpecMat == InitMat /\ [][NextMat]_vars

(***************************************************************************)
(* Arithmetic operators of CVector3, CVector4 and EU::Matrix2x2: the       *)
(* binary operators, const members that return a new object, and the       *)
(* compound assignments, which write the receiver member by member         *)
(***************************************************************************)
ArithClasses == {"CVector3", "CVector4", "Matrix2x2"}
\* The right-hand objects: one apart from the receiver, and the receiver
\* itself (v += v).
ArithOthers(c) ==
    IF c = "CVector3" THEN {CVector3(F1, FTwo, F(3)), This}
    ELSE IF c = "CVector4" THEN {CVector4(F1, FTwo, F(3), F(4)), This}
    ELSE {Matrix2x2(F(5), F(6), F(7), F(8)), This}
ArithScalars == {F0, FTwo, F(3)}
ArithOps(c) == IF c = "Matrix2x2" THEN {"+", "-"} ELSE {"+", "-", "*", "/"}
ArithOperands(c, op) == IF op \in {"+", "-"} THEN ArithOthers(c) ELSE ArithScalars

Arith_binaryVec(c, op, a, b) ==
    IF op = "+" THEN (IF c = "CVector3" THEN CVector3_add(a, b) ELSE CVector4_add(a, b))
    ELSE IF op = "-"
    THEN (IF c = "CVector3" THEN CVector3_sub(a, b) ELSE CVector4_sub(a, b))
    ELSE IF op = "*"
    THEN (IF c = "CVector3" THEN CVector3_mulScalar(a, b) ELSE CVector4_mulScalar(a, b))
    ELSE (IF c = "CVector3" THEN CVector3_divScalar(a, b) ELSE CVector4_divScalar(a, b))
Arith_binary(c, op, a, b) ==
    IF c # "Matrix2x2" THEN Arith_binaryVec(c, op, a, b)
    ELSE IF op = "+" THEN Matrix2x2_add(a, b) ELSE Matrix2x2_sub(a, b)
Arith_assignVec(c, op, a, o) ==
    IF op = "+"
    THEN (IF c = "CVector3" THEN CVector3_addAssign(a, o) ELSE CVector4_addAssign(a, o))
    ELSE IF op = "-"
    THEN (IF c = "CVector3" THEN CVector3_subAssign(a, o) ELSE CVector4_subAssign(a, o))
    ELSE IF op = "*"
    THEN (IF c = "CVector3" THEN CVector3_mulAssign(a, o) ELSE CVector4_mulAssign(a, o))
    ELSE (IF c = "CVector3" THEN CVector3_divAssign(a, o) ELSE CVector4_divAssign(a, o))
Arith_assign(c, op, a, o) ==
    IF c # "Matrix2x2" THEN Arith_assignVec(c, op, a, o)
    ELSE IF op = "+" THEN Matrix2x2_addAssign(a, o) ELSE Matrix2x2_subAssign(a, o)

\* The right-hand operand of a call: whether it is the receiver, and its
\* value before and after the call.
Operand(o, before, after) ==
    [alias |-> o = This, before |-> Deref(before, o), after |-> Deref(after, o)]

InitArith ==
    /\ cls \in ArithClasses
    /\ obj \in IF cls = "CVector3" THEN Vec3Inputs
               ELSE IF cls = "CVector4" THEN Vec4Inputs
               ELSE Mat2Inputs \cup MainMat2
    /\ calls = <<>>

\* r = a + o, a - o, a * s, a / s.
ABinary ==
    /\ calls = <<>>
    /\ \E op \in ArithOps(cls) :
          \E o \in ArithOperands(cls, op) :
              Log(Call("operator" \o op, obj, Operand(o, obj, obj),
                       Arith_binary(cls, op, obj, Deref(obj, o))))
    /\ UNCHANGED <<cls, obj>>

\* a += o, a -= o, a *= s, a /= s; the call returns *this.
ACompound ==
    /\ calls = <<>>
    /\ \E op \in ArithOps(cls) :
          \E o \in ArithOperands(cls, op) :
              /\ obj' = Arith_assign(cls, op, obj, o)
              /\ Log(Call("operator" \o op \o "=", obj, Operand(o, obj, obj'), obj'))
    /\ UNCHANGED cls

NextArith ==
    \/ ABinary
    \/ ACompound

SpecArith == InitArith /\ [][NextArith]_vars

(***************************************************************************)
(* EU::Math calls on a float x: sqrt, log, log10, round, floor, ceil.      *)
(* obj is x; a second call is made on x or on -x.                          *)
(***************************************************************************)
\* 0.49999997f, the float below 0.5; the largest float; the smallest one.
BelowHalf == Fin(0, MantLim - 1, 0 - 25)
FloatMax == Fin(0, MantLim - 1, ExpMax)
FloatMin == Fin(0, 1, ExpMin)
PositiveInputs ==
    {F(n) : n \in 1 .. MaxCoord + 2}
    \cup {FAdd(F(n), FHalf) : n \in 0 .. MaxCoord + 1}
    \cup {BelowHalf, FDiv(F1, F(4)), FDiv(F(3), F(4)), F(10), F(1000),
          F(8388609), F(16777215), Fin(0, MantLim - 1, 7),
          FloatMin, FMul(FTwo, FloatMin), FloatMax}
MathInputs ==
    PositiveInputs \cup {FNeg(x) : x \in PositiveInputs}
    \cup {F0, FNeg(F0), FIntMin}

InitMath ==
    /\ cls = "Math"
    /\ obj \in MathInputs
    /\ calls = <<>>

MathArgs == IF calls = <<>> THEN {obj} ELSE {obj, FNeg(obj)}

MSqrt ==
    /\ cls = "Math"
    /\ Len(calls) < 2
    /\ \E x \in MathArgs : Log(Call("sqrt", NoArg, x, Math_sqrt(x)))
    /\ UNCHANGED <<cls, obj>>

MLog ==
    /\ cls = "Math"
    /\ Len(calls) < 2
    /\ \E x \in MathArgs : Log(Call("log", NoArg, x, Math_log(x)))
    /\ UNCHANGED <<cls, obj>>

MLog10 ==
    /\ cls = "Math"
    /\ Len(calls) < 2
    /\ \E x \in MathArgs : Log(Call("log10", NoArg, x, Math_log10(x)))
    /\ UNCHANGED <<cls, obj>>

MRound ==
    /\ cls = "Math"
    /\ Len(calls) < 2
    /\ \E x \in MathArgs :
          \E r \in IF Converts(Math_roundArg(x)) THEN {Math_round(x)}
                   ELSE CastChoices(Math_roundArg(x)) :
              Log(Call("round", NoArg, x, r))
    /\ UNCHANGED <<cls, obj>>

MFloor ==
    /\ cls = "Math"
    /\ Len(calls) < 2
    /\ \E x \in MathArgs :
          \E r \in IF Converts(x) THEN {Math_floor(x)}
                   ELSE CastChoices(x) :
              Log(Call("floor", NoArg, x, r))
    /\ UNCHANGED <<cls, obj>>

MCeil ==
    /\ cls = "Math"
    /\ Len(calls) < 2
    /\ \E x \in MathArgs :
          \E r \in IF Converts(x) THEN {Math_ceil(x)}
                   ELSE CastChoices(x) :
              Log(Call("ceil", NoArg, x, r))
    /\ UNCHANGED <<cls, obj>>

NextMath ==
    \/ MSqrt
    \/ MLog
    \/ MLog10
    \/ MRound
    \/ MFloor
    \/ MCeil

SpecMath == InitMath /\ [][NextMath]_vars

(***************************************************************************)
(* EU::Math calls, one loop iteration at a time: sin, cos, sqrt and power. *)
(* obj is the frame of the running call: the function f, its position pc,  *)
(* its float argument x (which sin and cos overwrite), its int argument n,  *)
(* the loop variable i, the local acc (guess in sqrt, result in power) and  *)
(* the number of loop bodies executed so far.                              *)
(***************************************************************************)
MaxPower == 3
MaxIters == 12

Frame(f, pc, x, n, i, acc, iters) ==
    [f |-> f, pc |-> pc, x |-> x, n |-> n, i |-> i, acc |-> acc, iters |-> iters]
IdleFrame == Frame("none", "idle", F0, 0, 0, F0, 0)
LoopCall(m, arg, res, iters) == [m |-> m, arg |-> arg, res |-> res, iters |-> iters]
\* The executed-bodies count, which stops counting at MaxIters.
Counted(k) == IF k < MaxIters THEN k + 1 ELSE k

\* 2^28: the floats next to it are 16 below and 32 above, so adding or
\* subtracting 2 * pi rounds back to 2^28.
Huge == Fin(0, Hidden, 5)
AngleInputs ==
    {F0, F1, F(3), F(4), F(10), F(0 - 4), F(0 - 10), Huge, FNeg(Huge),
     Inf(0), NaN}
SqrtInputs == {F(0 - 1), F0, F1, FTwo, F(4), F(1000000)}
PowerBases == {F0, F1, FTwo, F(0 - 3)}
PowerExponents == (0 - 1) .. MaxPower

InitLoop ==
    /\ cls = "Math"
    /\ obj = IdleFrame
    /\ calls = <<>>

Idle == obj.pc = "idle" /\ Len(calls) < 2

LSinCos ==
    /\ cls = "Math"
    /\ Idle
    /\ \E f \in {"sin", "cos"}, x \in AngleInputs :
          obj' = Frame(f, "downTest", x, 0, 0, F0, 0)
    /\ UNCHANGED <<cls, calls>>

LDownTest ==
    /\ cls = "Math"
    /\ obj.pc = "downTest"
    /\ obj' = [obj EXCEPT !.pc = IF Math_mustReduceDown(obj.x)
                                 THEN "downBody" ELSE "upTest"]
    /\ UNCHANGED <<cls, calls>>

LDownBody ==
    /\ cls = "Math"
    /\ obj.pc = "downBody"
    /\ obj' = [obj EXCEPT !.pc = "downTest",
                          !.x = Math_reduceDownStep(obj.x),
                          !.iters = Counted(obj.iters)]
    /\ UNCHANGED <<cls, calls>>

LUpTest ==
    /\ cls = "Math"
    /\ obj.pc = "upTest"
    /\ obj' = [obj EXCEPT !.pc = IF Math_mustReduceUp(obj.x)
                                 THEN "upBody" ELSE "poly"]
    /\ UNCHANGED <<cls, calls>>

LUpBody ==
    /\ cls = "Math"
    /\ obj.pc = "upBody"
    /\ obj' = [obj EXCEPT !.pc = "upTest",
                          !.x = Math_reduceUpStep(obj.x),
                          !.iters = Counted(obj.iters)]
    /\ UNCHANGED <<cls, calls>>

\* A body that leaves x as it is repeats for ever.  A loop without side
\* effects that never ends is undefined behaviour: a build that assumes
\* forward progress may also go on to the statement after the loop.
LoopCannotEnd ==
    IF obj.pc = "downBody" THEN Math_reduceDownStep(obj.x) = obj.x
    ELSE IF obj.pc = "upBody" THEN Math_reduceUpStep(obj.x) = obj.x
    ELSE FALSE
LAssumeProgress ==
    /\ cls = "Math"
    /\ LoopCannotEnd
    /\ obj' = [obj EXCEPT !.pc = IF obj.pc = "downBody" THEN "upTest" ELSE "poly"]
    /\ UNCHANGED <<cls, calls>>

LSqrt ==
    /\ cls = "Math"
    /\ Idle
    /\ \E x \in SqrtInputs :
          obj' = IF FLe(x, F0) THEN Frame("sqrt", "return", x, 0, 0, F0, 0)
                 ELSE Frame("sqrt", "forTest", x, SqrtIterations, 0,
                            FDiv(x, FTwo), 0)
    /\ UNCHANGED <<cls, calls>>

LPower ==
    /\ cls = "Math"
    /\ Idle
    /\ \E x \in PowerBases, n \in PowerExponents :
          obj' = Frame("power", "forTest", x, n, 0, F1, 0)
    /\ UNCHANGED <<cls, calls>>

\* for (int i = 0; i < n; ++i): n is 10 in sqrt.
LForTest ==
    /\ cls = "Math"
    /\ obj.pc = "forTest"
    /\ obj' = [obj EXCEPT !.pc = IF obj.i < obj.n THEN "forBody" ELSE "return"]
    /\ UNCHANGED <<cls, calls>>

LForBody ==
    /\ cls = "Math"
    /\ obj.pc = "forBody"
    /\ obj' = [obj EXCEPT !.pc = "forTest",
                          !.i = obj.i + 1,
                          !.acc = IF obj.f = "sqrt"
                                  THEN Math_sqrtStep(obj.x, obj.acc)
                                  ELSE FMul(obj.acc, obj.x),
                          !.iters = Counted(obj.iters)]
    /\ UNCHANGED <<cls, calls>>

\* The arguments as they are at the return: sin and cos overwrite x.
LoopArg == IF obj.f = "power" THEN [x |-> obj.x, n |-> obj.n] ELSE [x |-> obj.x]
LReturn ==
    /\ cls = "Math"
    /\ obj.pc \in {"poly", "return"}
    /\ Log(LoopCall(obj.f, LoopArg,
                    IF obj.f = "sin" THEN Math_sinReduced(obj.x)
                    ELSE IF obj.f = "cos" THEN Math_cosReduced(obj.x)
                    ELSE obj.acc,
                    obj.iters))
    /\ obj' = IdleFrame
    /\ UNCHANGED cls

NextLoop ==
    \/ LSinCos
    \/ LDownTest
    \/ LDownBody
    \/ LUpTest
    \/ LUpBody
    \/ LAssumeProgress
    \/ LSqrt
    \/ LPower
    \/ LForTest
    \/ LForBody
    \/ LReturn

SpecLoop == InitLoop /\ [][NextLoop]_vars

\* A range-reduction loop that has been entered keeps executing.
LReduce == LDownTest \/ LDownBody \/ LUpTest \/ LUpBody
SpecLoopFair == SpecLoop /\ WF_vars(LReduce)

(***************************************************************************)
(* Properties                                                              *)
(***************************************************************************)
\* The tolerance 1e-5 of the specification, as a float.
Eps == FDiv(F1, F(100000))
Near(a, b) == FLe(FAbs(FSub(a, b)), Eps)

Mat2Near(a, b) ==
    /\ Near(a.m00, b.m00) /\ Near(a.m01, b.m01)
    /\ Near(a.m10, b.m10) /\ Near(a.m11, b.m11)
Mat3Near(a, b) == \A i \in 0 .. 2 : \A j \in 0 .. 2 : Near(a[i][j], b[i][j])
QuatNear(a, b) ==
    Near(a.x, b.x) /\ Near(a.y, b.y) /\ Near(a.z, b.z) /\ Near(a.w, b.w)
\* A float m[2][2] grid read as an EU::Matrix2x2.
AsMatrix2x2(g) == Matrix2x2(g[0][0], g[0][1], g[1][0], g[1][1])
Mat_entries(c, a) ==
    IF c = "Matrix2x2" THEN {a.m00, a.m01, a.m10, a.m11}
    ELSE {a[i][j] : i \in DOMAIN a, j \in DOMAIN a}

\* C1: for every EU::Matrix3x3 M whose determinant() is non-zero, M * M.inverse()
\* is the identity matrix, every element within 1e-5.
C1_InverseTimesSelf3 ==
    (/\ cls = "Matrix3x3"
     /\ CalledThen("inverse", "operator*")
     /\ Last.recv = obj
     /\ FNe(Matrix3x3_determinant(obj), F0))
    => Mat3Near(Last.res, Matrix3x3_identity)

\* The shear (1,1,0; 0,1,0; 0,0,1) has determinant 1 and M * M.inverse() has 2
\* at row 0, column 1.
C1_ShearProduct ==
    /\ cls = "Matrix3x3"
    /\ CalledThen("inverse", "operator*")
    /\ obj = Matrix3x3(F1, F1, F0, F0, F1, F0, F0, F0, F1)
    /\ Last.recv = obj
    /\ FEq(Matrix3x3_determinant(obj), F1)
    /\ FEq(Last.res[0][1], FTwo)

\* C2: for every Matrix2x2 M whose determinant() is non-zero, M * M.inverse() and
\* M.inverse() * M are both the identity matrix, every element within 1e-5; for
\* the older EngineUtilities::Matrix2x2, which has no operator*, the products
\* of M and the result of inverse() are formed with the row-by-column product.
C2_InverseTimesSelf2 ==
    /\ (/\ cls = "Matrix2x2"
        /\ CalledThen("inverse", "operator*")
        /\ FNe(Matrix2x2_determinant(obj), F0))
       => Mat2Near(Last.res, Matrix2x2_identity)
    /\ (/\ cls = "EngineUtilities_Matrix2x2"
        /\ Called("inverse")
        /\ FNe(EngineUtilities_Matrix2x2_determinant(obj), F0))
       => /\ Mat2Near(Matrix2x2_mul(AsMatrix2x2(obj), AsMatrix2x2(First.res)),
                      Matrix2x2_identity)
          /\ Mat2Near(Matrix2x2_mul(AsMatrix2x2(First.res), AsMatrix2x2(obj)),
                      Matrix2x2_identity)

\* M.inverse() * M has been formed for an invertible M with non-zero
\* off-diagonal elements.
C2_InverseTimesSelf2_Reached ==
    /\ cls = "Matrix2x2"
    /\ CalledThen("inverse", "operator*")
    /\ FNe(Matrix2x2_determinant(obj), F0)
    /\ FNe(obj.m01, F0)
    /\ FNe(obj.m10, F0)
    /\ Last.recv = First.res
    /\ Last.arg = obj
    /\ First.res # obj

\* C3: inverse() of a matrix whose determinant() is exactly 0 returns the identity
\* matrix, whose elements are all finite, and leaves the receiver unchanged, for
\* EU::Matrix2x2, EngineUtilities::Matrix2x2 and EU::Matrix3x3.
C3_SingularInverseIsIdentity ==
    (/\ cls \in MatClasses
     /\ Called("inverse")
     /\ FEq(Mat_determinant(cls, First.recv), F0))
    => /\ First.res = Mat_identity(cls)
       /\ \A x \in Mat_entries(cls, First.res) : IsFinite(x)
       /\ obj = First.recv

\* inverse() has been called on a singular EU::Matrix3x3 that is not the zero
\* matrix.
C3_SingularInverse_Reached ==
    /\ cls = "Matrix3x3"
    /\ Called("inverse")
    /\ FEq(Matrix3x3_determinant(First.recv), F0)
    /\ First.recv # Matrix3x3_zero
    /\ First.res = Matrix3x3_identity

\* C4: for every CVector3 / CVector4 v with v.length() > 0, the length() of
\* v.normalized() is within 1e-5 of 1.
C4_NormalizedHasUnitLength ==
    (/\ cls \in {"CVector3", "CVector4"}
     /\ CalledThen("normalized", "length")
     /\ FGt(Vec_length(cls, First.recv), F0))
    => Near(Last.res, F1)

\* (1000,0,0).normalized().length() has been computed and is below 0.97.
C4_LargeVector ==
    /\ cls = "CVector3"
    /\ CalledThen("normalized", "length")
    /\ First.recv = CVector3(F(1000), F0, F0)
    /\ FLt(Last.res, FDiv(F(97), F(100)))

\* C5: for a vector whose length() is exactly 0, normalized() returns the zero
\* vector and normalize() leaves the receiver equal to the zero vector; for every
\* vector, the receiver after normalize() equals what normalized() returned.
C5_ZeroLengthNormalize ==
    /\ (/\ cls \in VecClasses
        /\ Called("normalized")
        /\ FEq(Vec_length(cls, First.recv), F0))
       => Vec_eq(cls, First.res, Vec_zero(cls))
    /\ (/\ cls \in VecClasses
        /\ Called("normalize")
        /\ FEq(Vec_length(cls, First.recv), F0))
       => Vec_eq(cls, obj, Vec_zero(cls))
    /\ (cls \in VecClasses /\ CalledThen("normalized", "normalize"))
       => Vec_eq(cls, obj, First.res)

\* normalize() after normalized() on (2^-100, 0, 0), whose length() is 0:
\* normalized() returned the zero vector and normalize() left the receiver as
\* it was.
C5_UnderflowVector ==
    /\ cls = "CVector3"
    /\ CalledThen("normalized", "normalize")
    /\ First.recv = CVector3(Fin(0, Hidden, 0 - 123), F0, F0)
    /\ FEq(CVector3_length(First.recv), F0)
    /\ CVector3_eq(First.res, CVector3(F0, F0, F0))
    /\ obj = First.recv

\* C6: for a quaternion whose length() is exactly 0, normalized() returns the
\* identity quaternion (0,0,0,1) and normalize() leaves the receiver equal to
\* it, that is, to what normalized() returns.
C6_ZeroQuaternionNormalize ==
    /\ (Called("normalized") /\ FEq(Quaternion_length(First.recv), F0))
       => Quaternion_eq(First.res, Quaternion_identity)
    /\ (Called("normalize") /\ FEq(Quaternion_length(First.recv), F0))
       => /\ Quaternion_eq(obj, Quaternion_identity)
          /\ Quaternion_eq(obj, Quaternion_normalized(First.recv))

\* normalize() on the zero quaternion has left it (0,0,0,0).
C6_ZeroStaysZero ==
    /\ Called("normalize")
    /\ First.recv = Quaternion(F0, F0, F0, F0)
    /\ obj = Quaternion(F0, F0, F0, F0)
    /\ Quaternion_normalized(First.recv) = Quaternion_identity

C8_RotatePreservesLength ==
    CalledThen("normalized", "rotate")
    => Near(CVector3_length(Last.res), CVector3_length(Last.arg))

\* (1,0,0,1).normalized().rotate((0,1,0)) has been computed and is not (0,1,0).
C8_Rotated ==
    /\ CalledThen("normalized", "rotate")
    /\ First.recv = Quaternion(F1, F0, F0, F1)
    /\ Last.recv = First.res
    /\ Last.arg = CVector3(F0, F1, F0)
    /\ ~CVector3_eq(Last.res, Last.arg)

\* C9: (q1 * q2) * q3 equals q1 * (q2 * q3), every component within 1e-5, with
\* operator* and with operator*=.
C9_MulAssociative ==
    /\ (CalledThen("operator*", "operator*") /\ Last.recv = First.res)
       => QuatNear(Last.res,
                   Quaternion_mul(First.recv, Quaternion_mul(First.arg, Last.arg)))
    /\ CalledThen("operator*=", "operator*=")
       => QuatNear(obj,
                   Quaternion_mul(First.recv, Quaternion_mul(First.arg, Last.arg)))

\* (q1 * q2) * q3 has been formed for q1, q2 with q1 * q2 != q2 * q1.
C9_NotCommutative ==
    /\ CalledThen("operator*", "operator*")
    /\ Last.recv = First.res
    /\ ~Quaternion_eq(First.res, Quaternion_mul(First.arg, First.recv))
    /\ ~Quaternion_eq(Last.res, Quaternion_mul(Last.arg, Last.recv))

Vec3Near(a, b) == Near(a.x, b.x) /\ Near(a.y, b.y) /\ Near(a.z, b.z)
QuarterTurns == {FDiv(MainPi, FTwo), FDiv(Math_PI, FTwo)}
IsQuarterTurnAboutY(c) ==
    /\ c.m = "fromAxisAngle"
    /\ c.arg.axis = CVector3(F0, F1, F0)
    /\ c.arg.angle \in QuarterTurns
SqrtHalf == FDiv(std_sqrt(FTwo), FTwo)
C11_QuarterTurnAboutY ==
    (cls = "Quaternion" /\ calls # <<>>) =>
        (IsQuarterTurnAboutY(First) =>
            /\ QuatNear(First.res, Quaternion(F0, SqrtHalf, F0, SqrtHalf))
            /\ (Len(calls) = 2 /\ Last.m = "rotate"
                  /\ Last.arg = CVector3(F1, F0, F0)) =>
                   Vec3Near(Last.res, CVector3(F0, F0, F(0 - 1))))
\* main()'s call: the X axis rotated by fromAxisAngle((0,1,0), 3.1416f / 2).
C11_MainRotation ==
    /\ cls = "Quaternion"
    /\ CalledThen("fromAxisAngle", "rotate")
    /\ First.arg = [axis |-> CVector3(F0, F1, F0), angle |-> FDiv(MainPi, FTwo)]
    /\ Last.recv = First.res
    /\ Last.arg = CVector3(F1, F0, F0)
    /\ Last.res.z = F(0 - 1)

(***************************************************************************)
(* C12: every call of EU::Math::sin and EU::Math::cos terminates, whatever *)
(* its argument: the two range-reduction loops, the only loops of the two  *)
(* functions, are left once entered.                                       *)
(***************************************************************************)
InReduction == obj.pc \in {"downTest", "downBody", "upTest", "upBody"}
C12_SinCosTerminate == InReduction ~> (obj.pc = "poly")
\* sin or cos is about to subtract 2 * pi from an argument that the
\* subtraction leaves as it is.
C12_ReductionStuck ==
    /\ cls = "Math"
    /\ obj.f \in {"sin", "cos"}
    /\ obj.pc = "downBody"
    /\ obj.x = Huge
    /\ Math_reduceDownStep(obj.x) = obj.x

(***************************************************************************)
(* C13: the number of loop iterations a function executes is a constant of *)
(* the function, independent of its arguments: two calls of the same       *)
(* function execute the same number of loop bodies.                        *)
(***************************************************************************)
C13_FixedIterationCounts ==
    cls = "Math" =>
        \A j \in DOMAIN calls, k \in DOMAIN calls :
            calls[j].m = calls[k].m => calls[j].iters = calls[k].iters
\* sin(1) executed no loop body and sin(10) executed two.
C13_SinCountsDiffer ==
    /\ cls = "Math"
    /\ Len(calls) = 2
    /\ calls[1] = LoopCall("sin", [x |-> F1], Math_sin(F1), 0)
    /\ calls[2].m = "sin"
    /\ calls[2].arg = [x |-> Math_reduce(F(10))]
    /\ calls[2].iters = 2

(***************************************************************************)
(* C14: for every matrix M of EU::Matrix2x2, EU::Matrix3x3,                *)
(* EngineUtilities::Matrix2x2 and EngineUtilities::Matrix4x4,              *)
(* M.transpose() holds at (i,j) the entry M has at (j,i), M itself is      *)
(* unchanged, and M.transpose().transpose() is M, entry for entry.         *)
(***************************************************************************)
Mat_dim(c) ==
    IF c \in {"Matrix3x3", "EngineUtilities_Matrix3x3"} THEN 3
    ELSE IF c = "Matrix4x4" THEN 4 ELSE 2
\* The entries of a matrix of class c as a float grid.
Mat_grid(c, a) ==
    IF c = "Matrix2x2"
    THEN EngineUtilities_Matrix2x2(a.m00, a.m01, a.m10, a.m11) ELSE a
IsTransposeOf(c, t, a) ==
    \A i \in 0 .. Mat_dim(c) - 1, j \in 0 .. Mat_dim(c) - 1 :
        Mat_grid(c, t)[i][j] = Mat_grid(c, a)[j][i]
C14_TransposeInvolution ==
    (cls \in MatClasses /\ calls # <<>>) =>
        (First.m = "transpose" =>
            /\ First.recv = obj
            /\ IsTransposeOf(cls, First.res, obj)
            /\ Len(calls) = 2 =>
                  /\ Last.m = "transpose"
                  /\ Last.recv = First.res
                  /\ Last.res = obj)
\* A translation matrix, which differs from its transpose, transposed twice.
C14_TransposedTwice ==
    /\ cls = "Matrix4x4"
    /\ obj = Matrix4x4_translate(F1, F0, F(0 - 1))
    /\ CalledThen("transpose", "transpose")
    /\ First.res # obj
    /\ First.res[3][0] = F1
    /\ Last.res = obj

(***************************************************************************)
(* C15: operator* of EU::Matrix2x2 and EU::Matrix3x3 is the row-by-column  *)
(* product: entry (i,j) of A * B is the sum over k of A(i,k) * B(k,j), here *)
(* computed on integers; Matrix2x2(1,2,3,4) * Matrix2x2(5,6,7,8) is        *)
(* Matrix2x2(19,22,43,50); M * identity and identity * M are M.            *)
(***************************************************************************)
RECURSIVE RowByColumn(_, _, _, _, _)
RowByColumn(a, b, i, j, k) ==
    IF k < 0 THEN 0
    ELSE static_cast_int(a[i][k]) * static_cast_int(b[k][j])
         + RowByColumn(a, b, i, j, k - 1)
IsProductOf(c, r, a, b) ==
    \A i \in 0 .. Mat_dim(c) - 1, j \in 0 .. Mat_dim(c) - 1 :
        FEq(Mat_grid(c, r)[i][j],
            F(RowByColumn(Mat_grid(c, a), Mat_grid(c, b), i, j, Mat_dim(c) - 1)))
Mat_same(c, a, b) ==
    \A i \in 0 .. Mat_dim(c) - 1, j \in 0 .. Mat_dim(c) - 1 :
        FEq(Mat_grid(c, a)[i][j], Mat_grid(c, b)[i][j])
C15_RowByColumnProduct ==
    (cls \in {"Matrix2x2", "Matrix3x3"} /\ calls # <<>>) =>
        (First.m = "operator*" =>
            /\ IsProductOf(cls, First.res, First.recv, First.arg)
            /\ (First.recv = Matrix2x2(F1, F(2), F(3), F(4))
                  /\ First.arg = Matrix2x2(F(5), F(6), F(7), F(8))) =>
                   First.res = Matrix2x2(F(19), F(22), F(43), F(50))
            /\ First.arg = Mat_identity(cls) => Mat_same(cls, First.res, First.recv)
            /\ First.recv = Mat_identity(cls) => Mat_same(cls, First.res, First.arg))
\* main()'s product.
C15_MainProduct ==
    /\ cls = "Matrix2x2"
    /\ obj = Matrix2x2(F1, F(2), F(3), F(4))
    /\ Called("operator*")
    /\ First.recv = obj
    /\ First.arg = Matrix2x2(F(5), F(6), F(7), F(8))
    /\ First.res.m10 = F(43)

(***************************************************************************)
(* C16: cross() of CVector3 and of EngineUtilities::Vector3 is             *)
(* (y1*z2 - z1*y2, z1*x2 - x1*z2, x1*y2 - y1*x2), here computed on integers *)
(* for operands with integer components, and (1,0,0) x (0,1,0) is (0,0,1). *)
(***************************************************************************)
IsIntegral(x) == InIntRange(x) /\ FEq(F(static_cast_int(x)), x)
IntegralVec3(v) == IsIntegral(v.x) /\ IsIntegral(v.y) /\ IsIntegral(v.z)
IntCross(x1, y1, z1, x2, y2, z2) ==
    CVector3(F(y1 * z2 - z1 * y2), F(z1 * x2 - x1 * z2), F(x1 * y2 - y1 * x2))
IntCrossOf(a, b) ==
    IntCross(static_cast_int(a.x), static_cast_int(a.y), static_cast_int(a.z),
             static_cast_int(b.x), static_cast_int(b.y), static_cast_int(b.z))
C16_CrossFormula ==
    (cls \in {"CVector3", "Vector3"} /\ Called("cross")) =>
        /\ (IntegralVec3(First.recv) /\ IntegralVec3(First.arg)) =>
               CVector3_eq(First.res, IntCrossOf(First.recv, First.arg))
        /\ (First.recv = CVector3(F1, F0, F0) /\ First.arg = CVector3(F0, F1, F0)) =>
               First.res = CVector3(F0, F0, F1)
\* The operands of main()'s cross product, with the older Vector3.
C16_UnitCross ==
    /\ cls = "Vector3"
    /\ Called("cross")
    /\ First.recv = CVector3(F1, F0, F0)
    /\ First.arg = CVector3(F0, F1, F0)
    /\ First.res.z = F1

(***************************************************************************)
(* C17: CVector3::lerp and CVector4::lerp clamp t to [0,1]: every          *)
(* component of lerp(a, b, t) equals that of a when t <= 0, is that of b   *)
(* to within 1e-5 when t >= 1, is a + (b - a) * t when 0 < t < 1, and lies *)
(* between those of a and b, to within 1e-5.                               *)
(***************************************************************************)
Vec_comps(c, v) ==
    IF c = "CVector4" THEN <<v.x, v.y, v.z, v.w>> ELSE <<v.x, v.y, v.z>>
FMin(a, b) == IF FLt(a, b) THEN a ELSE b
FMax(a, b) == IF FLt(a, b) THEN b ELSE a
LerpComponentOk(a, b, t, r) ==
    /\ FLe(t, F0) => FEq(r, a)
    /\ FLe(F1, t) => Near(r, b)
    /\ (FLt(F0, t) /\ FLt(t, F1)) => FEq(r, FAdd(a, FMul(FSub(b, a), t)))
    /\ FLe(FSub(FMin(a, b), Eps), r)
    /\ FLe(r, FAdd(FMax(a, b), Eps))
Vec_size(c) == IF c = "CVector4" THEN 4 ELSE 3
\* The position, counted from 1, of the component that index i selects.
Selected(c, i) == IF 0 <= i /\ i < Vec_size(c) THEN i + 1 ELSE Vec_size(c)
C18_IndexSelectsComponent ==
    (cls \in {"CVector3", "CVector4"} /\ calls # <<>>) =>
        /\ First.m \in {"operator[]", "operator[] const"} =>
               First.res = Vec_comps(cls, First.recv)[Selected(cls, First.arg)]
        /\ First.m = "operator[] const" => obj = First.recv
        /\ First.m = "operator[]" =>
               \A k \in 1 .. Vec_size(cls) :
                   Vec_comps(cls, obj)[k] =
                       IF k = Selected(cls, First.arg) THEN F(7)
                       ELSE Vec_comps(cls, First.recv)[k]
\* v[-1] of a CVector3 with z different from x and y has returned z.
C18_NegativeIndex ==
    /\ cls = "CVector3"
    /\ Called("operator[] const")
    /\ First.arg = 0 - 1
    /\ First.recv = CVector3(F0, F1, F(0 - 1))
    /\ First.res = F(0 - 1)

(***************************************************************************)
(* C19: Math::sqrt(x), Math::log(x) and Math::log10(x) are 0 for every     *)
(* x <= 0, and Math::sqrt(x) is greater than 0 for every finite x > 0.     *)
(***************************************************************************)
C19_NonPositiveGivesZero ==
    cls = "Math" =>
        \A k \in DOMAIN calls :
            /\ (calls[k].m \in {"sqrt", "log", "log10"} /\ FLe(calls[k].arg, F0)) =>
                   FEq(calls[k].res, F0)
            /\ (calls[k].m = "sqrt" /\ FGt(calls[k].arg, F0)) =>
                   FGt(calls[k].res, F0)
\* log10(-3) has returned 0 and sqrt(3) a positive value.
C19_NegativeThenPositive ==
    /\ cls = "Math"
    /\ obj = F(0 - 3)
    /\ CalledThen("log10", "sqrt")
    /\ First.arg = obj
    /\ First.res = F0
    /\ Last.arg = F(3)
    /\ FGt(Last.res, F1)

(***************************************************************************)
(* C20: for every x in the range of int, Math::round(x) is x rounded to    *)
(* the nearest integer, halves away from zero, Math::floor(x) the largest  *)
(* integer not above x and Math::ceil(x) the smallest integer not below x; *)
(* ceil(x) is -floor(-x) and round(-x) is -round(x).                       *)
(***************************************************************************)
\* x = (-1)^s * m * 2^e read as a rational: whether it has a fractional
\* part, and whether that part is 1/2 or more.
HasFraction(x) ==
    IF x.e >= 0 THEN FALSE
    ELSE IF 0 - x.e >= MantBits THEN x.m # 0
    ELSE x.m % Pow2(0 - x.e) # 0
FractionAtLeastHalf(x) ==
    IF x.e >= 0 \/ 0 - x.e > MantBits THEN FALSE
    ELSE 2 * (x.m % Pow2(0 - x.e)) >= Pow2(0 - x.e)
Signed(x, n) == IF x.s = 1 THEN 0 - n ELSE n
StdRound(x) ==
    IF ~HasFraction(x) THEN CastToInt(x)
    ELSE Signed(x, IntMagnitude(x) + (IF FractionAtLeastHalf(x) THEN 1 ELSE 0))
StdFloor(x) ==
    IF ~HasFraction(x) THEN CastToInt(x)
    ELSE IF x.s = 1 THEN 0 - IntMagnitude(x) - 1 ELSE IntMagnitude(x)
StdCeil(x) ==
    IF ~HasFraction(x) THEN CastToInt(x)
    ELSE IF x.s = 1 THEN 0 - IntMagnitude(x) ELSE IntMagnitude(x) + 1
RoundingOk(c) ==
    /\ c.m = "round" => c.res = StdRound(c.arg)
    /\ c.m = "floor" => c.res = StdFloor(c.arg)
    /\ c.m = "ceil" => c.res = StdCeil(c.arg)
OppositeArgs == Len(calls) = 2 /\ Last.arg = FNeg(First.arg) /\ Converts(Last.arg)
C20_StandardRounding ==
    (cls = "Math" /\ calls # <<>>) =>
        (Converts(First.arg) =>
            /\ RoundingOk(First)
            /\ (OppositeArgs /\ First.m = "ceil" /\ Last.m = "floor") =>
                   First.res = 0 - Last.res
            /\ (OppositeArgs /\ First.m = "round" /\ Last.m = "round") =>
                   Last.res = 0 - First.res)
\* round(0.49999997f) has returned 1.
C20_RoundBelowHalf ==
    /\ cls = "Math"
    /\ Called("round")
    /\ First.arg = BelowHalf
    /\ First.res = 1
    /\ StdRound(First.arg) = 0


(***************************************************************************)
(* C21: Matrix3x3 * CVector2 reads the vector as (x, y, 1): with x', y'    *)
(* and w the products of rows 0, 1 and 2 with (x, y, 1), here computed on  *)
(* integers, the result is (x'/w, y'/w) when w is not 0 and (x', y') when  *)
(* w is 0; when the bottom row is (0,0,1) the result is the 2x2 linear     *)
(* part applied to (x, y) plus the translation column.                     *)
(***************************************************************************)
IntRow(a, i, v) ==
    static_cast_int(a[i][0]) * static_cast_int(v.x)
    + static_cast_int(a[i][1]) * static_cast_int(v.y)
    + static_cast_int(a[i][2])
IsHomogeneousQuotient(r, xp, yp, w) ==
    IF w # 0
    THEN FEq(r.x, FDiv(F(xp), F(w))) /\ FEq(r.y, FDiv(F(yp), F(w)))
    ELSE FEq(r.x, F(xp)) /\ FEq(r.y, F(yp))
IsAffineRow(a) == a[2] = Matrix3x3_identity[2]
C21_HomogeneousProduct ==
    (cls = "Matrix3x3" /\ Called("operator*(CVector2)")) =>
        /\ IsHomogeneousQuotient(First.res, IntRow(First.recv, 0, First.arg),
                                 IntRow(First.recv, 1, First.arg),
                                 IntRow(First.recv, 2, First.arg))
        /\ IsAffineRow(First.recv) =>
               /\ FEq(First.res.x, F(IntRow(First.recv, 0, First.arg)))
               /\ FEq(First.res.y, F(IntRow(First.recv, 1, First.arg)))
\* A product with w = 3: (3,2) under rows (1,0,1), (0,1,0), (0,1,1) is
\* (4/3, 2/3).
C21_PerspectiveDivided ==
    /\ cls = "Matrix3x3"
    /\ Called("operator*(CVector2)")
    /\ First.arg = CVector2(F(3), FTwo)
    /\ First.recv = Matrix3x3(F1, F0, F1, F0, F1, F0, F0, F1, F1)
    /\ First.res = CVector2(FDiv(F(4), F(3)), FDiv(FTwo, F(3)))


(***************************************************************************)
(* C22: operator()(row, col) of EU::Matrix2x2 and EU::Matrix3x3 is the     *)
(* row-major accessor: for row and col in range a read returns the element *)
(* of that row and column ((0,0) is m00, (0,1) m01, (1,0) m10, (1,1) m11), *)
(* a write through it changes that element and no other, and a later read  *)
(* of the same (row, col) returns the written value.                       *)
(***************************************************************************)
\* The element of row i and column j, read from the object's members.
ElementOf(c, a, i, j) ==
    IF c = "Matrix3x3" THEN a[i][j]
    ELSE IF i = 0 THEN (IF j = 0 THEN a.m00 ELSE a.m01)
    ELSE (IF j = 0 THEN a.m10 ELSE a.m11)
OnlyChangedAt(c, before, after, p, value) ==
    \A i \in Mat_indices(c), j \in Mat_indices(c) :
        ElementOf(c, after, i, j) =
            IF i = p.row /\ j = p.col THEN value ELSE ElementOf(c, before, i, j)
C22_RowMajorAccessor ==
    (cls \in IndexedClasses /\ calls # <<>>) =>
        /\ First.m = "operator() const" =>
               First.res = ElementOf(cls, First.recv, First.arg.row, First.arg.col)
        /\ First.m = "operator()" =>
               /\ OnlyChangedAt(cls, First.recv, obj, First.arg, First.res)
               /\ Len(calls) = 2 => Last.res = First.res
\* Matrix2x2(1,2,3,4): M(1,0) = 7 has been written and read back, and m01
\* is still 2.
C22_WrittenAndReadBack ==
    /\ cls = "Matrix2x2"
    /\ CalledThen("operator()", "operator() const")
    /\ First.recv = Matrix2x2(F1, F(2), F(3), F(4))
    /\ First.arg = Position(1, 0)
    /\ obj = Matrix2x2(F1, F(2), F(7), F(4))
    /\ Last.res = F(7)


(***************************************************************************)
(* C23: Math::power(x, n) is x raised to the power of n for every integer  *)
(* exponent n: 1 for n = 0, x * power(x, n - 1) for n > 0 (here the        *)
(* integer power of an integer base), and the reciprocal of x to the -n    *)
(* for n < 0 and x not 0.                                                  *)
(***************************************************************************)
RECURSIVE IntPower(_, _)
IntPower(b, n) == IF n = 0 THEN 1 ELSE b * IntPower(b, n - 1)
IsPowerOf(res, x, n) ==
    IF n >= 0 THEN FEq(res, F(IntPower(static_cast_int(x), n)))
    ELSE IsZero(x) \/ FEq(res, FDiv(F1, F(IntPower(static_cast_int(x), 0 - n))))
C23_PowerIsExponentiation ==
    \A k \in 1 .. Len(calls) :
        (cls = "Math" /\ calls[k].m = "power") =>
            IsPowerOf(calls[k].res, calls[k].arg.x, calls[k].arg.n)
\* power(2, -1) has returned 1 after no pass through the loop.
C23_NegativeExponent ==
    /\ cls = "Math"
    /\ calls # <<>>
    /\ First.m = "power"
    /\ First.arg = [x |-> FTwo, n |-> 0 - 1]
    /\ First.iters = 0
    /\ First.res = F1


(***************************************************************************)
(* C24: the binary operators +, -, scalar * and scalar / of CVector3 and   *)
(* CVector4 and + and - of EU::Matrix2x2 leave both operands as they were; *)
(* a compound assignment +=, -=, *=, /= leaves the receiver equal to what  *)
(* the binary operator returns for the same operands, returns the          *)
(* receiver, and leaves a right-hand operand that is another object as it  *)
(* was.                                                                    *)
(***************************************************************************)
BinaryOperators == {"operator+", "operator-", "operator*", "operator/"}
CompoundOperators == {"operator+=", "operator-=", "operator*=", "operator/="}
\* The binary operator a compound assignment corresponds to, applied.
BinaryResult(c, m, a, b) ==
    Arith_binary(c, IF m = "operator+=" THEN "+" ELSE IF m = "operator-=" THEN "-"
                    ELSE IF m = "operator*=" THEN "*" ELSE "/", a, b)
C24_ValueSemantics ==
    (cls \in ArithClasses /\ calls # <<>>) =>
        /\ First.m \in BinaryOperators =>
               obj = First.recv /\ First.arg.after = First.arg.before
        /\ First.m \in CompoundOperators =>
               /\ obj = BinaryResult(cls, First.m, First.recv, First.arg.before)
               /\ First.res = obj
               /\ ~First.arg.alias => First.arg.after = First.arg.before
\* v += v on (1,1,-1): it has left (2,2,-2).
C24_AddedToItself ==
    /\ cls = "CVector3"
    /\ Called("operator+=")
    /\ First.arg.alias
    /\ First.recv = CVector3(F1, F1, F(0 - 1))
    /\ obj = CVector3(FTwo, FTwo, F(0 - 2))


(***************************************************************************)
(* C25: Matrix3x3::cofactor(row, col) is (-1)^(row+col) times the          *)
(* determinant of the 2x2 minor left after deleting that row and column,   *)
(* for all nine positions; adjugate() is the transpose of the matrix of    *)
(* those cofactors, and M * M.adjugate() is determinant() times the        *)
(* identity.  Entries are integers and the right-hand sides are computed   *)
(* on integers.                                                            *)
(***************************************************************************)
\* The two indices left after deleting index i, in increasing order.
Remaining(i) == IF i = 0 THEN <<1, 2>> ELSE IF i = 1 THEN <<0, 2>> ELSE <<0, 1>>
IntEntry(a, i, j) == static_cast_int(a[i][j])
IntMinor(a, r, c) ==
    IntEntry(a, r[1], c[1]) * IntEntry(a, r[2], c[2])
    - IntEntry(a, r[1], c[2]) * IntEntry(a, r[2], c[1])
IntCofactor(a, row, col) ==
    (IF (row + col) % 2 = 0 THEN 1 ELSE 0 - 1)
    * IntMinor(a, Remaining(row), Remaining(col))
IntDeterminant(a) ==
    IntEntry(a, 0, 0) * IntCofactor(a, 0, 0)
    + IntEntry(a, 0, 1) * IntCofactor(a, 0, 1)
    + IntEntry(a, 0, 2) * IntCofactor(a, 0, 2)
C25_CofactorExpansion ==
    (cls = "Matrix3x3" /\ calls # <<>>) =>
        /\ First.m = "cofactor" =>
               FEq(First.res, F(IntCofactor(First.recv, First.arg.row, First.arg.col)))
        /\ First.m = "adjugate" =>
               \A i \in 0 .. 2, j \in 0 .. 2 :
                   FEq(First.res[i][j], F(IntCofactor(First.recv, j, i)))
        /\ (CalledThen("adjugate", "operator*") /\ Last.recv = obj) =>
               \A i \in 0 .. 2, j \in 0 .. 2 :
                   FEq(Last.res[i][j],
                       F(IF i = j THEN IntDeterminant(obj) ELSE 0))
\* The shear (1,1,0; 0,1,0; 0,0,1): cofactor(1, 0) has returned 1 and the
\* cofactor of that element is -1.
C25_OddPositionSign ==
    /\ cls = "Matrix3x3"
    /\ Called("cofactor")
    /\ First.recv = Matrix3x3(F1, F1, F0, F0, F1, F0, F0, F0, F1)
    /\ First.arg = [row |-> 1, col |-> 0]
    /\ First.res = F1
    /\ IntCofactor(First.recv, 1, 0) = 0 - 1


(***************************************************************************)
(* C26: rotate does not depend on the scale of the quaternion: for every   *)
(* non-zero q, unit or not, every factor k other than 0 and every v,       *)
(* (k*q).rotate(v) is q.rotate(v), which is q.normalized().rotate(v) and   *)
(* has the squared length of v, every component within 1e-5.               *)
(***************************************************************************)
IsZeroQuaternion(q) == IsZero(q.x) /\ IsZero(q.y) /\ IsZero(q.z) /\ IsZero(q.w)
C26_RotateIgnoresScale ==
    (/\ cls = "Quaternion"
     /\ calls # <<>>
     /\ First.m = "rotate"
     /\ First.recv = obj
     /\ ~IsZeroQuaternion(obj)) =>
        /\ \A n \in {Quaternion_normalized(obj)} :
               Vec3Near(First.res, Quaternion_rotate(n, First.arg))
        /\ Near(CVector3_lengthSquared(First.res),
                CVector3_lengthSquared(First.arg))
        /\ (Len(calls) = 2 /\ Last.m = "rotate") => Vec3Near(Last.res, First.res)
\* (1,0,0,1), of length sqrt(2), and 3 times it both take (0,1,0) to (0,0,1).
C26_ScaledRotation ==
    /\ cls = "Quaternion"
    /\ CalledThen("rotate", "rotate")
    /\ obj = Quaternion(F1, F0, F0, F1)
    /\ First.recv = obj
    /\ First.arg = CVector3(F0, F1, F0)
    /\ Last.recv = Quaternion(F(3), F0, F0, F(3))
    /\ Vec3Near(First.res, CVector3(F0, F0, F1))
    /\ Vec3Near(Last.res, CVector3(F0, F0, F1))


(***************************************************************************)
(* C27: the Hamilton product is norm-multiplicative: the squared length of *)
(* q1 * q2 is the product of the squared lengths of q1 and q2, so the      *)
(* product of two unit quaternions is a unit quaternion; the identity      *)
(* quaternion (0,0,0,1) is a unit on both sides: q * identity and          *)
(* identity * q equal q.                                                   *)
(***************************************************************************)
IsUnitQuaternion(q) == Near(Quaternion_lenSq(q), F1)
C27_NormMultiplicative ==
    (cls = "Quaternion" /\ calls # <<>>) =>
        (First.m = "operator*" =>
            /\ Near(Quaternion_lenSq(First.res),
                    FMul(Quaternion_lenSq(First.recv), Quaternion_lenSq(First.arg)))
            /\ (IsUnitQuaternion(First.recv) /\ IsUnitQuaternion(First.arg)) =>
                   IsUnitQuaternion(First.res)
            /\ First.arg = Quaternion_identity => Quaternion_eq(First.res, First.recv)
            /\ First.recv = Quaternion_identity => Quaternion_eq(First.res, First.arg))
\* The units (0,1,0,0) and (1/2,1/2,1/2,1/2) have been multiplied; the
\* product is neither of them and has squared length 1.
C27_UnitProduct ==
    /\ cls = "Quaternion"
    /\ Called("operator*")
    /\ First.recv = Quaternion(F0, F1, F0, F0)
    /\ First.arg = Quaternion(FHalf, FHalf, FHalf, FHalf)
    /\ First.res = Quaternion(FHalf, FHalf, FNeg(FHalf), FNeg(FHalf))
    /\ FEq(Quaternion_lenSq(First.res), F1)


Twin2x2(m, a) ==
    IF m = "determinant" THEN EngineUtilities_Matrix2x2_determinant(a)
    ELSE IF m = "transpose" THEN EngineUtilities_Matrix2x2_transpose(a)
    ELSE EngineUtilities_Matrix2x2_inverse(a)
TwinOld2x2(m, a) ==
    IF m = "determinant" THEN Matrix2x2_determinant(a)
    ELSE IF m = "transpose" THEN Mat_grid("Matrix2x2", Matrix2x2_transpose(a))
    ELSE Mat_grid("Matrix2x2", Matrix2x2_inverse(a))
Twin3x3(m, a) ==
    IF m = "determinant" THEN EngineUtilities_Matrix3x3_determinant(a)
    ELSE EngineUtilities_Matrix3x3_transpose(a)
TwinOld3x3(m, a) ==
    IF m = "determinant" THEN Matrix3x3_determinant(a) ELSE Matrix3x3_transpose(a)
AsGrid(c, m, r) == IF m = "determinant" THEN r ELSE Mat_grid(c, r)
C29_DuplicateTypesAgree ==
    (cls \in DeterminantClasses /\ calls # <<>> /\ First.recv = obj) =>
        /\ (cls = "Matrix2x2" /\ First.m \in {"determinant", "transpose", "inverse"}) =>
               AsGrid(cls, First.m, First.res) = Twin2x2(First.m, Mat_grid(cls, obj))
        /\ (cls = "EngineUtilities_Matrix2x2"
              /\ First.m \in {"determinant", "transpose", "inverse"}) =>
               First.res = TwinOld2x2(First.m, AsMatrix2x2(obj))
        /\ (cls = "Matrix3x3" /\ First.m \in {"determinant", "transpose"}) =>
               First.res = Twin3x3(First.m, obj)
        /\ (cls = "EngineUtilities_Matrix3x3"
              /\ First.m \in {"determinant", "transpose"}) =>
               First.res = TwinOld3x3(First.m, obj)
\* The older Matrix3x3 holding (1,1,0; 1,0,1; 0,1,1) has returned the
\* determinant -2.
C29_OlderDeterminant ==
    /\ cls = "EngineUtilities_Matrix3x3"
    /\ Called("determinant")
    /\ obj = Matrix3x3(F1, F1, F0, F1, F0, F1, F0, F1, F1)
    /\ First.res = F(0 - 2)


(***************************************************************************)
(* C30: determinant() is multiplicative with respect to operator*: for     *)
(* EU::Matrix2x2 and EU::Matrix3x3 operands A and B with integer entries,  *)
(* (A * B).determinant() is A.determinant() * B.determinant(), the 2x2     *)
(* determinant being m00*m11 - m01*m10 and the 3x3 one the first-row       *)
(* cofactor expansion, both computed here on integers.                     *)
(***************************************************************************)
IntDeterminant2(a) ==
    static_cast_int(a.m00) * static_cast_int(a.m11)
    - static_cast_int(a.m01) * static_cast_int(a.m10)
IntDeterminantOf(c, a) ==
    IF c = "Matrix2x2" THEN IntDeterminant2(a) ELSE IntDeterminant(a)
C30_DeterminantMultiplicative ==
    (cls \in {"Matrix2x2", "Matrix3x3"}
       /\ CalledThen("operator*", "determinant") /\ Last.recv = First.res) =>
        FEq(Last.res, F(IntDeterminantOf(cls, First.recv)
                        * IntDeterminantOf(cls, First.arg)))
\* (1,1,0; 1,0,1; 0,1,1), of determinant -2, times the matrix of
\* determinant 7: the product has determinant -14.
C30_ProductDeterminant ==
    /\ cls = "Matrix3x3"
    /\ CalledThen("operator*", "determinant")
    /\ First.recv = Matrix3x3(F1, F1, F0, F1, F0, F1, F0, F1, F1)
    /\ First.arg = Mat3Regular
    /\ Last.recv = First.res
    /\ Last.res = F(0 - 14)

=============================================================================
